---- MODULE Spec2Model ----
(***************************************************************************)
(* Model of the RealtimeX Python SDK (src/python/realtimex_sdk): one      *)
(* client, one operation called on it, the HTTP requests the operation    *)
(* sends to the upstream and to the permission broker, and its outcome.   *)
(* Spec is an ordinary call, StreamSpec the decoding of an event stream   *)
(* read in pieces, StreamCallSpec a streaming call from request to end.   *)
(*                                                                         *)
(* JSON values are modelled as strings: Absent is a missing key (what     *)
(* dict.get returns as None), "True"/"False" are the JSON booleans.       *)
(***************************************************************************)
EXTENDS Integers, Sequences, FiniteSets, TLC

\* Bound of the model: the number of requests one call may send to the
\* protected endpoint (the code itself has no such bound).
MaxRequests == 3

Absent == "<absent>"
PERMISSION_REQUIRED == "PERMISSION_REQUIRED"
PERMISSION_DENIED == "PERMISSION_DENIED"
LLM_ERROR == "LLM_ERROR"

\* HTTP status codes the upstream answers with.
Statuses == {200, 403, 500}

\* Python truthiness of a JSON value: None, "", false are falsy.
Truthy(v) == v \notin {Absent, "", "False"}

\* dict.get(key, default) on a field of a parsed body.
Get(v, default) == IF v = Absent THEN default ELSE v

\* httpx.Response.is_success / aiohttp resp.ok: a 2xx status (ok is < 400,
\* the same on the statuses used here).
IsSuccess(status) == status >= 200 /\ status < 300

----------------------------------------------------------------------------
\* The upstream's answers.

\* data is the optional "data" object of an activities response: <<>> when
\* the key is missing, <<D>> when it holds the object D. D is an activity
\* record, which may itself hold a key named data.
EmptyBody ==
    [error |-> Absent, code |-> Absent, permission |-> Absent,
     message |-> Absent, success |-> Absent, content |-> Absent, data |-> <<>>]

ErrorValues == {Absent, PERMISSION_REQUIRED, PERMISSION_DENIED, "boom"}
CodeValues == {Absent, PERMISSION_REQUIRED, PERMISSION_DENIED, LLM_ERROR}
PermissionValues == {Absent, "llm.chat"}
MessageValues == {Absent, "please allow"}
DataValues ==
    {<<>>,
     <<[id |-> "a1", data |-> <<>>]>>,
     <<[id |-> "a1", data |-> <<[id |-> "inner", data |-> <<>>]>>]>>}

PermissionCodes == {PERMISSION_REQUIRED, PERMISSION_DENIED}

\* The envelopes of spec section 6: a success body (optionally with the chat
\* content), or an error body whose error and/or code name the failure; the
\* server names one failure per body, puts permission only in a permission
\* failure, a message only in a failure and a payload (content or data) only
\* in a success.
WellFormed(b) ==
    /\ ~(b.error \in PermissionCodes /\ b.code \in PermissionCodes /\ b.error # b.code)
    /\ b.permission # Absent => (b.error \in PermissionCodes \/ b.code \in PermissionCodes)
    /\ b.message # Absent => (b.error # Absent \/ b.code # Absent)
    /\ b.success = "True" => (b.error = Absent /\ b.code = Absent)
    /\ b.success = "False" => (b.error # Absent \/ b.code # Absent)
    /\ b.code # Absent => b.success = "False"
    /\ b.content # Absent => b.success = "True"
    /\ b.data # <<>> => (b.success = "True" /\ b.content = Absent)

Bodies ==
    {b \in [error : ErrorValues, code : CodeValues, permission : PermissionValues,
            message : MessageValues, success : {Absent, "True", "False"},
            content : {Absent, "hello"}, data : DataValues] : WellFormed(b)}

\* A response: its status and its body, which is a JSON object or not JSON.
Responses ==
    {[status |-> s, json |-> TRUE, body |-> b] : s \in Statuses, b \in Bodies}
    \cup {[status |-> s, json |-> FALSE, body |-> EmptyBody] : s \in Statuses}

NoResponse == [status |-> 0, json |-> FALSE, body |-> EmptyBody]

\* The answers for an activity that does not exist.
NotFoundResponses ==
    {[status |-> 404, json |-> TRUE, body |-> [EmptyBody EXCEPT !.error = "boom"]],
     [status |-> 404, json |-> FALSE, body |-> EmptyBody]}

----------------------------------------------------------------------------
\* The operations of the feature modules: the request each one builds. The
\* json field names the payload the operation marshals from its arguments.

\* payload names the keys of the payload object of a task event.
NoKwargs == [json |-> Absent, params |-> Absent, timeout |-> Absent, payload |-> {}]

\* The arguments an operation checks before it sends anything; Absent is an
\* argument left at its default.
NoArgs ==
    [auto_run |-> Absent, agent_name |-> Absent, workspace_slug |-> Absent,
     thread_slug |-> Absent, delete_all |-> Absent,
     result |-> Absent, error |-> Absent, machine_id |-> Absent]

ApiModule_get_agents ==
    [module |-> "api", name |-> "get_agents", method |-> "GET", endpoint |-> "/agents",
     kwargs |-> NoKwargs, auth |-> TRUE, args |-> NoArgs]

ActivitiesModule_insert ==
    [module |-> "activities", name |-> "insert", method |-> "POST", endpoint |-> "/activities",
     kwargs |-> [NoKwargs EXCEPT !.json = "{raw_data}"], auth |-> TRUE, args |-> NoArgs]

ActivitiesModule_update ==
    [module |-> "activities", name |-> "update", method |-> "PATCH",
     endpoint |-> "/activities/{id}",
     kwargs |-> [NoKwargs EXCEPT !.json = "{updates}"], auth |-> TRUE, args |-> NoArgs]

ActivitiesModule_list ==
    [module |-> "activities", name |-> "list", method |-> "GET", endpoint |-> "/activities",
     kwargs |-> [NoKwargs EXCEPT !.params = "{limit,offset}"], auth |-> TRUE, args |-> NoArgs]

ActivitiesModule_get ==
    [module |-> "activities", name |-> "get", method |-> "GET",
     endpoint |-> "/activities/{id}", kwargs |-> NoKwargs, auth |-> TRUE, args |-> NoArgs]

WebhookModule_trigger_agent ==
    [module |-> "webhook", name |-> "trigger_agent", method |-> "POST",
     endpoint |-> "/webhooks/realtimex",
     kwargs |-> [NoKwargs EXCEPT !.json = "{app_name,app_id,event:trigger-agent,payload}"],
     auth |-> TRUE, args |-> NoArgs]

\* trigger_agent called with auto_run=True and the three names.
SlugValues == {Absent, "", "main"}

WebhookModule_trigger_agent_auto(agent_name, workspace_slug, thread_slug) ==
    [WebhookModule_trigger_agent EXCEPT
        !.args = [NoArgs EXCEPT !.auto_run = "True", !.agent_name = agent_name,
                                !.workspace_slug = workspace_slug,
                                !.thread_slug = thread_slug]]

\* ping passes no headers argument to client.post.
WebhookModule_ping ==
    [module |-> "webhook", name |-> "ping", method |-> "POST",
     endpoint |-> "/webhooks/realtimex",
     kwargs |-> [NoKwargs EXCEPT !.json = "{app_name,app_id,event:ping}"],
     auth |-> FALSE, args |-> NoArgs]

\* Mutant: the payload always carries result, error and machine_id.
TaskModule_payload_with_nulls(result, error, machine_id) ==
    {"task_uuid", "result", "error", "machine_id"}

\* _send_event: payload = {'task_uuid': ...}, with result, error and
\* machine_id added when they are not None.
TaskModule_payload(result, error, machine_id) ==
    {"task_uuid"}
    \cup (IF result # Absent THEN {"result"} ELSE {})
    \cup (IF error # Absent THEN {"error"} ELSE {})
    \cup (IF machine_id # Absent THEN {"machine_id"} ELSE {})

TaskModule_start ==
    [module |-> "task", name |-> "start", method |-> "POST",
     endpoint |-> "/webhooks/realtimex",
     kwargs |-> [NoKwargs EXCEPT !.json = "{app_name,app_id,event:task-start,payload}",
                                 !.payload = TaskModule_payload(Absent, Absent, Absent)],
     auth |-> TRUE, args |-> NoArgs]

\* start(task_uuid, machine_id), complete(task_uuid, result, machine_id) and
\* fail(task_uuid, error, machine_id).
TaskModule_start_on(machine_id) ==
    [TaskModule_start EXCEPT
        !.kwargs.payload = TaskModule_payload(Absent, Absent, machine_id),
        !.args.machine_id = machine_id]

TaskModule_complete(result, machine_id) ==
    [TaskModule_start EXCEPT
        !.name = "complete",
        !.kwargs.json = "{app_name,app_id,event:task-complete,payload}",
        !.kwargs.payload = TaskModule_payload(result, Absent, machine_id),
        !.args.result = result, !.args.machine_id = machine_id]

TaskModule_fail(error, machine_id) ==
    [TaskModule_start EXCEPT
        !.name = "fail",
        !.kwargs.json = "{app_name,app_id,event:task-fail,payload}",
        !.kwargs.payload = TaskModule_payload(Absent, error, machine_id),
        !.args.error = error, !.args.machine_id = machine_id]

TaskOperations ==
    {TaskModule_start_on(m) : m \in {Absent, "m1"}}
    \cup {TaskModule_complete(r, m) : r \in {Absent, "{result}"}, m \in {Absent, "m1"}}
    \cup {TaskModule_fail("failed", m) : m \in {Absent, "m1"}}

LLMModule_chat ==
    [module |-> "llm", name |-> "chat", method |-> "POST", endpoint |-> "/sdk/llm/chat",
     kwargs |-> [NoKwargs EXCEPT !.json = "{messages,model,provider}", !.timeout = "120.0"],
     auth |-> TRUE, args |-> NoArgs]

VectorStore_query ==
    [module |-> "vectors", name |-> "query", method |-> "POST",
     endpoint |-> "/sdk/llm/vectors/query",
     kwargs |-> [NoKwargs EXCEPT !.json = "{vector,topK,workspaceId,filter}", !.timeout = "60.0"],
     auth |-> TRUE, args |-> NoArgs]

VectorStore_delete(delete_all) ==
    [module |-> "vectors", name |-> "delete", method |-> "POST",
     endpoint |-> "/sdk/llm/vectors/delete",
     kwargs |-> [NoKwargs EXCEPT !.json = "{deleteAll,workspaceId}", !.timeout = "60.0"],
     auth |-> TRUE, args |-> [NoArgs EXCEPT !.delete_all = delete_all]]

TTSModule_speak ==
    [module |-> "tts", name |-> "speak", method |-> "POST", endpoint |-> "/sdk/tts",
     kwargs |-> [NoKwargs EXCEPT !.json = "{text}", !.timeout = "60.0"],
     auth |-> TRUE, args |-> NoArgs]

\* The streaming operations; chat_stream leaves response_format out of the
\* payload.
LLMModule_chat_stream ==
    [module |-> "llm", name |-> "chat_stream", method |-> "POST",
     endpoint |-> "/sdk/llm/chat/stream",
     kwargs |-> [NoKwargs EXCEPT !.json = "{messages,model,provider}", !.timeout = "120.0"],
     auth |-> TRUE, args |-> NoArgs]

TTSModule_speak_stream ==
    [module |-> "tts", name |-> "speak_stream", method |-> "POST",
     endpoint |-> "/sdk/tts/stream",
     kwargs |-> [NoKwargs EXCEPT !.json = "{text}", !.timeout = "120.0"],
     auth |-> TRUE, args |-> NoArgs]

StreamOperations == {LLMModule_chat_stream, TTSModule_speak_stream}

Operations ==
    {ApiModule_get_agents, ActivitiesModule_insert, ActivitiesModule_update,
     ActivitiesModule_list, ActivitiesModule_get,
     WebhookModule_trigger_agent, WebhookModule_ping, TaskModule_start,
     LLMModule_chat, VectorStore_query, TTSModule_speak}
    \cup {WebhookModule_trigger_agent_auto(a, w, t) :
              a \in SlugValues, w \in SlugValues, t \in SlugValues}
    \cup {VectorStore_delete(d) : d \in {"True", "False"}}
    \cup TaskOperations

\* Mutant: no argument is checked.
validate_nothing(o) == Absent

\* The checks an operation makes on its arguments before any request: the
\* message of the ValueError it raises, or Absent when it raises none.
validate(o) ==
    IF o.module = "webhook" /\ o.name = "trigger_agent"
    THEN IF Truthy(Get(o.args.auto_run, "False"))
            /\ (~Truthy(o.args.agent_name) \/ ~Truthy(o.args.workspace_slug)
                \/ ~Truthy(o.args.thread_slug))
         THEN "auto_run requires agent_name, workspace_slug, and thread_slug"
         ELSE Absent
    ELSE IF o.module = "vectors" /\ o.name = "delete"
    THEN IF ~Truthy(Get(o.args.delete_all, "True"))
         THEN "Currently only delete_all=True is supported"
         ELSE Absent
    ELSE Absent

NoOperation ==
    [module |-> "none", name |-> "none", method |-> "", endpoint |-> "",
     kwargs |-> NoKwargs, auth |-> FALSE, args |-> NoArgs]

\* The modules whose calls go through a permission-retry wrapper.
WrappedModules == {"api", "activities", "webhook", "llm", "vectors", "tts"}

\* LLMModule.chat maps the body the wrapper returns into a ChatResponse;
\* the body's content field stands for response.content.
LLMModule_chat_response(data) ==
    [success |-> Get(data.body.success, "False"),
     content |-> data.body.content,
     error |-> data.body.error,
     code |-> data.body.code]

\* data.get("data", data) on a JSON object.
Unwrap(data) == IF data.data # <<>> THEN data.data[1] ELSE data

RECURSIVE UnwrapTimes(_, _)
UnwrapTimes(data, n) == IF n = 0 THEN data ELSE UnwrapTimes(Unwrap(data), n - 1)

\* What insert and update return when the wrapper's last response carried the
\* body data after d replays: do_request unwraps what _handle_response
\* returns, and on a grant _handle_response returns retry_fn(), which is
\* do_request again, so each level of the recursion unwraps once more.
ActivitiesModule_insert_result(data, d) == UnwrapTimes(data, d + 1)

----------------------------------------------------------------------------
\* Credentials and headers.

ApiKeys == {Absent, "sk-dev"}
AppIds == {"", "app-1"}
AppName == "Local App"

\* Mutant: the second credential is attached only when the first is missing.
get_headers_exclusive(key, id) ==
    {<<"Content-Type", "application/json">>}
    \cup (IF Truthy(key) THEN {<<"Authorization", "Bearer", key>>}
          ELSE IF Truthy(id) THEN {<<"x-app-id", id>>} ELSE {})

\* The header dictionary every module builds: Content-Type, then
\* Authorization when an API key is configured, then x-app-id when an app id
\* is configured (two independent ifs).
get_headers(key, id) ==
    {<<"Content-Type", "application/json">>}
    \cup (IF Truthy(key) THEN {<<"Authorization", "Bearer", key>>} ELSE {})
    \cup (IF Truthy(id) THEN {<<"x-app-id", id>>} ELSE {})

HeaderNames(headers) == {h[1] : h \in headers}

\* The request an invocation of the operation sends to the protected
\* endpoint: client.request(method, url, headers=..., **kwargs).
HttpRequest(o, f, key, id) ==
    [method |-> f.method, url |-> f.endpoint,
     headers |-> IF o.auth THEN get_headers(key, id) ELSE {},
     json |-> f.kwargs.json, params |-> f.kwargs.params, timeout |-> f.kwargs.timeout,
     payload |-> f.kwargs.payload]

\* The arguments of the first invocation.
FirstFrame(o) == [method |-> o.method, endpoint |-> o.endpoint, kwargs |-> o.kwargs]

\* Mutant: the recursive invocation loses the JSON body and the query.
RetryFrame_without_body(f) ==
    [method |-> f.method, endpoint |-> f.endpoint,
     kwargs |-> [f.kwargs EXCEPT !.json = Absent, !.params = Absent]]

\* The arguments of the recursive invocation after a grant: the same method,
\* endpoint and keyword arguments (_api_call, _request), or the same closure
\* over the same captured arguments (retry_fn = do_request).
RetryFrame(f) == [method |-> f.method, endpoint |-> f.endpoint, kwargs |-> f.kwargs]

----------------------------------------------------------------------------
\* Outcomes of a call: a normal return of the parsed body, or an exception.

NoData == [json |-> FALSE, body |-> EmptyBody]

NoOutcome == [kind |-> "none", permission |-> Absent, message |-> Absent, data |-> NoData]

Raise(kind, msg) ==
    [kind |-> kind, permission |-> Absent, message |-> msg, data |-> NoData]

\* PermissionDeniedError(permission, message): str(e) is the message, or a
\* default text when the message is None or empty.
PermissionDeniedError(perm, msg) ==
    [kind |-> "PermissionDeniedError", permission |-> perm,
     message |-> IF Truthy(msg) THEN msg ELSE "Permission was denied",
     data |-> NoData]

\* Mutant: the wrapper returns an empty object.
Return_without_body(r) ==
    [kind |-> "return", permission |-> Absent, message |-> Absent,
     data |-> [json |-> r.json, body |-> EmptyBody]]

Return(r) ==
    [kind |-> "return", permission |-> Absent, message |-> Absent,
     data |-> [json |-> r.json, body |-> r.body]]

\* What a wrapper does with one response: finish the call, or ask the broker
\* for a permission (keeping the locals permission and message).
Finish(o) == [to |-> "done", permission |-> Absent, message |-> Absent, outcome |-> o]

AskPermission(perm, msg) ==
    [to |-> "permission", permission |-> perm, message |-> msg, outcome |-> NoOutcome]

\* httpx raise_for_status() followed by return response.json().
RaiseForStatusThenJson(r) ==
    IF ~IsSuccess(r.status) THEN Finish(Raise("HTTPStatusError", Absent))
    ELSE IF ~r.json THEN Finish(Raise("JSONDecodeError", Absent))
    ELSE Finish(Return(r))

----------------------------------------------------------------------------
\* The wrappers, one per module, as the code handles one response.

\* Mutant: a PERMISSION_DENIED answer is sent to the broker like a
\* PERMISSION_REQUIRED one.
ApiModule_api_call_asks_on_denied(r) ==
    IF ~r.json THEN Finish(Raise("JSONDecodeError", Absent))
    ELSE IF r.status = 403 /\ r.body.error \in PermissionCodes
    THEN AskPermission(r.body.permission, r.body.message)
    ELSE IF ~IsSuccess(r.status)
    THEN Finish(Raise("Exception", Get(r.body.error, "API call failed")))
    ELSE Finish(Return(r))

ApiModule_api_call(r) ==
    IF ~r.json THEN Finish(Raise("JSONDecodeError", Absent))
    ELSE LET data == r.body
             error_code == data.error
             permission == data.permission
             message == data.message
         IN  IF r.status = 403
             THEN IF error_code = PERMISSION_REQUIRED /\ Truthy(permission)
                  THEN AskPermission(permission, message)
                  ELSE IF error_code = PERMISSION_DENIED
                  THEN Finish(PermissionDeniedError(permission, message))
                  ELSE Finish(Raise("Exception", Get(data.error, "Permission denied")))
             ELSE IF ~IsSuccess(r.status)
             THEN Finish(Raise("Exception", Get(data.error, "API call failed")))
             ELSE Finish(Return(r))

ActivitiesModule_handle_response(r) ==
    IF r.status = 403
    THEN IF ~r.json THEN Finish(Raise("JSONDecodeError", Absent))
         ELSE LET data == r.body
                  error_code == data.error
                  permission == data.permission
                  message == data.message
              IN  IF error_code = PERMISSION_REQUIRED /\ Truthy(permission)
                  THEN AskPermission(permission, message)
                  ELSE IF error_code = PERMISSION_DENIED
                  THEN Finish(PermissionDeniedError(permission, message))
                  ELSE RaiseForStatusThenJson(r)
    ELSE RaiseForStatusThenJson(r)

\* "return None" of ActivitiesModule.get.
ReturnNone == [kind |-> "return", permission |-> Absent, message |-> Absent, data |-> NoData]

\* do_request of ActivitiesModule.get at recursion depth d: a 404 returns
\* None before the wrapper is called. The invocation that asked the broker
\* gets that None as the wrapper's result and calls .get on it.
ActivitiesModule_get_do_request(r, d) ==
    IF r.status = 404
    THEN IF d = 0 THEN Finish(ReturnNone)
         ELSE Finish(Raise("AttributeError", Absent))
    ELSE ActivitiesModule_handle_response(r)

WebhookModule_handle_response(r) ==
    IF r.status = 403
    THEN IF ~r.json THEN Finish(Raise("JSONDecodeError", Absent))
         ELSE LET data == r.body
                  error_code == data.error
                  permission == data.permission
                  message == data.message
              IN  IF error_code = PERMISSION_REQUIRED /\ Truthy(permission)
                  THEN AskPermission(permission, message)
                  ELSE IF error_code = PERMISSION_DENIED
                  THEN Finish(PermissionDeniedError(permission, message))
                  ELSE RaiseForStatusThenJson(r)
    ELSE RaiseForStatusThenJson(r)

LLMModule_request(r) ==
    IF ~r.json THEN Finish(Raise("JSONDecodeError", Absent))
    ELSE LET data == r.body
         IN  IF data.code = PERMISSION_REQUIRED
             THEN AskPermission(Get(data.permission, "llm.chat"), Absent)
             ELSE IF ~Truthy(Get(data.success, "False")) /\ Truthy(data.error)
                     /\ data.code = LLM_ERROR
             THEN Finish(Raise("LLMProviderError", data.error))
             ELSE IF ~Truthy(Get(data.success, "False")) /\ Truthy(data.error)
                     /\ data.code = "PROVIDER_UNAVAILABLE"
             THEN Finish(Raise("LLMProviderError", Get(data.error, "Provider not available")))
             ELSE Finish(Return(r))

VectorStore_request(r) ==
    IF ~r.json THEN Finish(Raise("JSONDecodeError", Absent))
    ELSE LET data == r.body
         IN  IF data.code = PERMISSION_REQUIRED
             THEN AskPermission(Get(data.permission, "vectors.read"), Absent)
             ELSE IF ~Truthy(Get(data.success, "False")) /\ Truthy(data.error)
                     /\ data.code = LLM_ERROR
             THEN Finish(Raise("LLMProviderError", data.error))
             ELSE IF ~Truthy(Get(data.success, "False")) /\ Truthy(data.error)
                     /\ data.code = "PROVIDER_UNAVAILABLE"
             THEN Finish(Raise("LLMProviderError", Get(data.error, "Provider not available")))
             ELSE Finish(Return(r))

\* A 200 returns response.content, JSON or not; response.json() is tried on
\* every other status, and a JSONDecodeError leads to raise_for_status().
TTSModule_request(r) ==
    IF r.status = 200 THEN Finish(Return(r))
    ELSE IF ~r.json
    THEN IF ~IsSuccess(r.status) THEN Finish(Raise("HTTPStatusError", Absent))
         ELSE Finish(Return(r))
    ELSE LET data == r.body
         IN  IF data.code = PERMISSION_REQUIRED
             THEN AskPermission(Get(data.permission, "tts.generate"), Absent)
             ELSE Finish(Raise("Exception", Get(data.error, "Request failed")))

\* aiohttp: resp.json() first, then resp.ok (status < 400).
TaskModule_send_event(r) ==
    IF ~r.json THEN Finish(Raise("JSONDecodeError", Absent))
    ELSE IF ~(r.status < 400) THEN Finish(Raise("Exception", Get(r.body.error, "Failed to send")))
    ELSE Finish(Return(r))

----------------------------------------------------------------------------
\* The permission broker.

\* How a POST /api/local-apps/request-permission can end: the transport
\* raises, the 60 s timeout expires, the body is not JSON, or the body is a
\* JSON object with some value (or none) under "granted".
BrokerAnswers ==
    {[kind |-> k, granted |-> Absent] : k \in {"raises", "timeout", "nonjson"}}
    \cup {[kind |-> "json", granted |-> g] : g \in {Absent, "True", "False", "'false'"}}

NoAnswer == [kind |-> "none", granted |-> Absent]

\* _request_permission: data.get("granted", False), or False on any exception.
request_permission(ans) ==
    IF ans.kind # "json" THEN "False" ELSE Get(ans.granted, "False")

\* The body the broker is called with.
BrokerRequest(id, perm) ==
    [url |-> "/api/local-apps/request-permission", headers |-> {},
     app_id |-> id, app_name |-> AppName, permission |-> perm, timeout |-> "60.0"]

\* Mutant: the error raised after a refused grant names no permission.
RaiseDenied_without_permission(module, perm, msg) ==
    PermissionDeniedError(Absent, msg)

\* The raise after a refused grant: the api, activities and webhook wrappers
\* pass the server's message, the llm, vectors and tts wrappers do not.
RaiseDenied(module, perm, msg) ==
    IF module \in {"api", "activities", "webhook"}
    THEN PermissionDeniedError(perm, msg)
    ELSE PermissionDeniedError(perm, Absent)

----------------------------------------------------------------------------
\* Server-sent events. A stream is a text, modelled as a sequence of tokens:
\* each token is a piece of text no test of the decoders looks inside.

NL == "\n"
SP == " "

\* str.strip(): leading and trailing blanks removed.
RECURSIVE LStrip(_)
LStrip(s) == IF s # <<>> /\ Head(s) = SP THEN LStrip(Tail(s)) ELSE s

RECURSIVE RStrip(_)
RStrip(s) ==
    IF s # <<>> /\ s[Len(s)] = SP THEN RStrip(SubSeq(s, 1, Len(s) - 1)) ELSE s

Strip(s) == RStrip(LStrip(s))

\* str.startswith(prefix), and the slice s[len(prefix):].
StartsWith(s, prefix) ==
    Len(s) >= Len(prefix) /\ SubSeq(s, 1, Len(prefix)) = prefix

After(s, prefix) == SubSeq(s, Len(prefix) + 1, Len(s))

\* buffer.split("\n", 1): the text before the first newline and the text
\* after it; only used on a text that holds a newline.
RECURSIVE FirstLine(_)
FirstLine(buffer) ==
    IF Head(buffer) = NL THEN <<>> ELSE <<Head(buffer)>> \o FirstLine(Tail(buffer))

HasNewline(buffer) == \E i \in 1..Len(buffer) : buffer[i] = NL

AfterFirstLine(buffer) == SubSeq(buffer, Len(FirstLine(buffer)) + 2, Len(buffer))

\* lines = buffer.split("\n"); buffer = lines.pop(): the complete lines, in
\* order, and the unterminated rest.
RECURSIVE SplitLines(_)
SplitLines(buffer) ==
    IF ~HasNewline(buffer) THEN [lines |-> <<>>, rest |-> buffer]
    ELSE LET tail == SplitLines(AfterFirstLine(buffer))
         IN  [lines |-> <<FirstLine(buffer)>> \o tail.lines, rest |-> tail.rest]

\* The JSON objects of the payloads: a field that the object does not hold
\* is Absent.
EmptyObject ==
    [textResponse |-> Absent, uuid |-> Absent, close |-> Absent, error |-> Absent,
     code |-> Absent, audio |-> Absent, index |-> Absent, total |-> Absent,
     mimeType |-> Absent]

\* json.loads(text): white space between the tokens of a JSON text is
\* skipped; the texts below are the JSON objects of the model, every other
\* text raises JSONDecodeError.
JsonTexts ==
    (<<"{", "1}">> :> [EmptyObject EXCEPT !.textResponse = "Hel", !.uuid = "u1",
                                           !.index = "0", !.total = "2",
                                           !.audio = "QQ=="])
    @@ (<<"{", "A}">> :> [EmptyObject EXCEPT !.index = "1", !.total = "2",
                                              !.audio = "Qg=="])
    @@ (<<"{", "E}">> :> [EmptyObject EXCEPT !.error = "boom"])

NotBlank(token) == token # SP

Compact(text) == SelectSeq(text, NotBlank)

\* The JSON texts that are not objects: json.loads returns a number, on
\* which .get raises AttributeError and ["audio"] raises TypeError.
JsonScalars == {<<"5">>}

IsJsonObject(text) == Compact(text) \in DOMAIN JsonTexts

IsJson(text) == IsJsonObject(text) \/ Compact(text) \in JsonScalars

json_loads(text) == JsonTexts[Compact(text)]

\* base64.b64decode of the audio strings of the model; any other value makes
\* it raise.
Base64 == ("QQ==" :> "A") @@ ("Qg==" :> "B")

\* What a decoder holds and has produced: its locals, the chunks yielded so
\* far, and the error raised, if any.
NoError == [kind |-> "none", message |-> Absent, code |-> Absent]

NoDecoder ==
    [decoder |-> "none", state |-> "idle", buffer |-> <<>>, is_error_event |-> FALSE,
     event_type |-> <<>>, chunks |-> <<>>, error |-> NoError]

\* buffer = ""; is_error_event = False (chat_stream), event_type = ""
\* (speak_stream).
OpenDecoder(name) == [NoDecoder EXCEPT !.decoder = name, !.state = "open"]

Yield(d, chunk) == [d EXCEPT !.chunks = Append(@, chunk)]

RaiseInStream(d, kind, msg, code) ==
    [d EXCEPT !.state = "raised",
              !.error = [kind |-> kind, message |-> msg, code |-> code]]

StreamChunk(data) ==
    [text |-> Get(data.textResponse, ""), uuid |-> data.uuid,
     close |-> Get(data.close, "False"), error |-> Get(data.error, "False")]

\* Mutant: a payload that is not JSON ends the stream with the decoding error.
LLMModule_chat_stream_line_aborts(d, line) ==
    LET trimmed_line == Strip(line)
    IN  IF trimmed_line = <<>> \/ StartsWith(trimmed_line, <<":">>) THEN d
        ELSE IF StartsWith(trimmed_line, <<"event", ":", SP, "error">>)
        THEN [d EXCEPT !.is_error_event = TRUE]
        ELSE IF StartsWith(trimmed_line, <<"data", ":", SP>>)
        THEN LET json_str == After(trimmed_line, <<"data", ":", SP>>)
             IN  IF json_str = <<"[DONE]">> THEN [d EXCEPT !.is_error_event = FALSE]
                 ELSE IF ~IsJson(json_str)
                 THEN RaiseInStream(d, "JSONDecodeError", Absent, Absent)
                 ELSE IF ~IsJsonObject(json_str)
                 THEN RaiseInStream([d EXCEPT !.is_error_event = FALSE],
                          "AttributeError", Absent, Absent)
                 ELSE LET data == json_loads(json_str)
                      IN  IF d.is_error_event
                          THEN RaiseInStream([d EXCEPT !.is_error_event = FALSE],
                                   "LLMProviderError", Get(data.error, "Stream error"),
                                   Get(data.code, "LLM_STREAM_ERROR"))
                          ELSE Yield(d, StreamChunk(data))
        ELSE d

\* chat_stream, the body of "for line in lines".
LLMModule_chat_stream_line(d, line) ==
    LET trimmed_line == Strip(line)
    IN  IF trimmed_line = <<>> \/ StartsWith(trimmed_line, <<":">>) THEN d
        ELSE IF StartsWith(trimmed_line, <<"event", ":", SP, "error">>)
        THEN [d EXCEPT !.is_error_event = TRUE]
        ELSE IF StartsWith(trimmed_line, <<"data", ":", SP>>)
        THEN LET json_str == After(trimmed_line, <<"data", ":", SP>>)
             IN  IF json_str = <<"[DONE]">> THEN [d EXCEPT !.is_error_event = FALSE]
                 ELSE IF ~IsJson(json_str) THEN [d EXCEPT !.is_error_event = FALSE]
                 ELSE IF ~IsJsonObject(json_str)
                 THEN RaiseInStream([d EXCEPT !.is_error_event = FALSE],
                          "AttributeError", Absent, Absent)
                 ELSE LET data == json_loads(json_str)
                      IN  IF d.is_error_event
                          THEN RaiseInStream([d EXCEPT !.is_error_event = FALSE],
                                   "LLMProviderError", Get(data.error, "Stream error"),
                                   Get(data.code, "LLM_STREAM_ERROR"))
                          ELSE Yield(d, StreamChunk(data))
        ELSE d

RECURSIVE LLMModule_chat_stream_lines(_, _)
LLMModule_chat_stream_lines(d, lines) ==
    IF lines = <<>> \/ d.state = "raised" THEN d
    ELSE LLMModule_chat_stream_lines(LLMModule_chat_stream_line(d, Head(lines)),
                                     Tail(lines))

\* Mutant: the unterminated rest of a read is not kept for the next one.
LLMModule_chat_stream_read_forgets(d, chunk) ==
    LET split == SplitLines(d.buffer \o chunk)
    IN  LLMModule_chat_stream_lines([d EXCEPT !.buffer = <<>>], split.lines)

\* chat_stream, the body of "async for chunk in response.aiter_text()".
LLMModule_chat_stream_read(d, chunk) ==
    LET split == SplitLines(d.buffer \o chunk)
    IN  LLMModule_chat_stream_lines([d EXCEPT !.buffer = split.rest], split.lines)

\* Mutant: the audio is yielded as it was sent, not decoded.
TTSModule_speak_stream_item_encoded(parsed) ==
    [index |-> parsed.index, total |-> parsed.total,
     audio |-> parsed.audio,
     mimeType |-> Get(parsed.mimeType, "audio/wav")]

\* The record speak_stream yields for the parsed payload of a chunk frame.
TTSModule_speak_stream_item(parsed) ==
    [index |-> parsed.index, total |-> parsed.total,
     audio |-> Base64[parsed.audio],
     mimeType |-> Get(parsed.mimeType, "audio/wav")]

\* speak_stream, the body of the while loop after "line = line.strip()".
TTSModule_speak_stream_line(d, line) ==
    IF line = <<>> THEN d
    ELSE IF StartsWith(line, <<"event", ":">>)
    THEN [d EXCEPT !.event_type = Strip(After(line, <<"event", ":">>))]
    ELSE IF StartsWith(line, <<"data", ":">>)
    THEN LET event_data == Strip(After(line, <<"data", ":">>))
             reset == [d EXCEPT !.event_type = <<>>]
         IN  IF d.event_type = <<"chunk">> /\ event_data # <<>>
             THEN IF IsJsonObject(event_data)
                  THEN LET parsed == json_loads(event_data)
                       IN  IF /\ parsed.audio \in DOMAIN Base64
                              /\ parsed.index # Absent /\ parsed.total # Absent
                           THEN Yield(reset, TTSModule_speak_stream_item(parsed))
                           ELSE reset
                  ELSE reset
             ELSE IF d.event_type = <<"error">> /\ event_data # <<>>
             THEN IF IsJsonObject(event_data)
                  THEN RaiseInStream(d, "Exception",
                           Get(json_loads(event_data).error, "TTS streaming error"),
                           Absent)
                  ELSE IF IsJson(event_data)
                  THEN RaiseInStream(d, "AttributeError", Absent, Absent)
                  ELSE reset
             ELSE reset
    ELSE d

\* speak_stream, the loop "while "\n" in buffer".
RECURSIVE TTSModule_speak_stream_while(_)
TTSModule_speak_stream_while(d) ==
    IF d.state = "raised" \/ ~HasNewline(d.buffer) THEN d
    ELSE TTSModule_speak_stream_while(
             TTSModule_speak_stream_line([d EXCEPT !.buffer = AfterFirstLine(d.buffer)],
                                         Strip(FirstLine(d.buffer))))

\* speak_stream, the body of "async for raw_chunk in response.aiter_text()".
TTSModule_speak_stream_read(d, raw_chunk) ==
    TTSModule_speak_stream_while([d EXCEPT !.buffer = @ \o raw_chunk])

\* The decoder named in d, applied to one read.
StreamRead(d, chunk) ==
    IF d.decoder = "chat_stream" THEN LLMModule_chat_stream_read(d, chunk)
    ELSE TTSModule_speak_stream_read(d, chunk)

\* Mutant: the line left in the buffer is decoded when the stream ends.
end_of_stream_flushes(d) ==
    LET flushed == StreamRead(d, <<NL>>)
    IN  IF flushed.state = "raised" THEN flushed ELSE [flushed EXCEPT !.state = "closed"]

\* "async for ... in response.aiter_text()" ends and the generator returns:
\* nothing follows the loop, the buffer is dropped with the frame.
end_of_stream(d) == [d EXCEPT !.state = "closed"]

\* The streams an upstream sends: up to MaxLines lines, each ended by a
\* newline, and then possibly a last line that no newline ends.
MaxLines == 3

SSELines ==
    {<<>>,
     <<"data", ":", SP, "{", "1}">>,
     <<"data", ":", SP, "{">>,
     <<"data", ":", SP, "[DONE]">>,
     <<"event", ":", SP, "error">>,
     <<SP, "event", ":", "chunk">>,
     <<"data", ":", SP, "{", "E}">>,
     <<"data", ":", "{", SP, "A}">>,
     <<"data", ":", SP, "5">>}

UnterminatedLines == {<<>>, <<"data", ":", SP, "{", "1}">>}

RECURSIVE Join(_)
Join(lines) ==
    IF lines = <<>> THEN <<>> ELSE Head(lines) \o <<NL>> \o Join(Tail(lines))

Streams ==
    {Join(lines) \o last :
        lines \in UNION {[1..n -> SSELines] : n \in 0..MaxLines},
        last \in UnterminatedLines}

----------------------------------------------------------------------------
\* PortModule (port.py): the search for a port the application can listen on.

\* PortModule.__init__(default_port=8080).
default_port == 8080

\* The ports of the host the model tells apart, from default_port upwards.
PortCount == 3

Ports == default_port..(default_port + PortCount - 1)

\* The addresses is_port_available binds, in the order it binds them.
Hosts == <<"127.0.0.1", "0.0.0.0", "::1">>

\* A host: whether it has IPv6 and the address ::1, and for each address the
\* ports some other socket holds.
Worlds ==
    {w \in [ipv6 : BOOLEAN, busy : [{Hosts[i] : i \in 1..Len(Hosts)} -> SUBSET Ports]] :
        ~w.ipv6 => w.busy["::1"] = {}}

NoWorld == [ipv6 |-> FALSE, busy |-> [h \in {Hosts[i] : i \in 1..Len(Hosts)} |-> {}]]

\* The values of the environment variable RTX_PORT.
EnvPorts == {Absent, "", "8081", "abc"}

\* No port: the None of an Optional[int], and the place of a number where a
\* ValueError was raised instead.
NoPort == -1

\* int(env_port): the number a decimal text denotes, NoPort for the
\* ValueError on any other text.
int(text) == IF text = "8081" THEN 8081 ELSE NoPort

\* The default of find_available_port's max_attempts (100 in the source),
\* scaled to the ports of the host.
max_attempts_default == PortCount - 2

\* socket.socket(family, SOCK_STREAM) and s.bind((host, port)): TRUE when the
\* socket is bound, FALSE for the OSError of a family the host does not
\* support, an address it does not have or a port in use.
bind(w, host, p) ==
    /\ host = "::1" => w.ipv6
    /\ p \notin w.busy[host]

\* PortModule._is_port_available_on: every OSError is a False.
PortModule__is_port_available_on(w, p, host) == bind(w, host, p)

\* PortModule.is_port_available: the port binds on 127.0.0.1, on 0.0.0.0
\* and on ::1. The "except OSError: pass" around the third check is never
\* entered, _is_port_available_on having turned the error into False.
PortModule_is_port_available(w, p) ==
    IF ~PortModule__is_port_available_on(w, p, Hosts[1]) THEN FALSE
    ELSE IF ~PortModule__is_port_available_on(w, p, Hosts[2]) THEN FALSE
    ELSE IF ~PortModule__is_port_available_on(w, p, Hosts[3]) THEN FALSE
    ELSE TRUE

\* PortModule.get_suggested_port: RTX_PORT when set and not empty, else the
\* default port.
PortModule_get_suggested_port(env) ==
    IF Truthy(env) THEN int(env) ELSE default_port

PortReturn(p, probed) == [kind |-> "return", port |-> p, probed |-> probed]

PortRaise(kind, probed) == [kind |-> kind, port |-> NoPort, probed |-> probed]

NoPortResult == [kind |-> "none", port |-> NoPort, probed |-> <<>>]

\* The loop of find_available_port from its i-th iteration on: the first
\* port of port, port + 1, ... found available is returned, RuntimeError
\* raised when max_attempts ports were tried. probed lists the ports tried.
RECURSIVE PortModule_find_loop(_, _, _, _, _)
PortModule_find_loop(w, p, i, max_attempts, probed) ==
    IF i >= max_attempts THEN PortRaise("RuntimeError", probed)
    ELSE IF PortModule_is_port_available(w, p + i)
         THEN PortReturn(p + i, Append(probed, p + i))
         ELSE PortModule_find_loop(w, p, i + 1, max_attempts, Append(probed, p + i))

\* PortModule.find_available_port(start_port, max_attempts).
PortModule_find_available_port(w, env, start_port, max_attempts, probed) ==
    LET p == IF start_port # NoPort THEN start_port
             ELSE PortModule_get_suggested_port(env)
    IN  IF p = NoPort THEN PortRaise("ValueError", probed)
        ELSE PortModule_find_loop(w, p, 0, max_attempts, probed)

\* PortModule.get_port().
PortModule_get_port(w, env) ==
    LET suggested == PortModule_get_suggested_port(env)
    IN  IF suggested = NoPort THEN PortRaise("ValueError", <<>>)
        ELSE IF PortModule_is_port_available(w, suggested)
             THEN PortReturn(suggested, <<suggested>>)
             ELSE PortModule_find_available_port(w, env, suggested + 1,
                                                 max_attempts_default, <<suggested>>)

NoPortModule == [pc |-> "none", env |-> Absent, world |-> NoWorld,
                 call |-> Absent, start_port |-> NoPort, max_attempts |-> 0,
                 result |-> NoPortResult]

----------------------------------------------------------------------------
\* Two calls in progress at once on one client: two coroutines of one event
\* loop, each suspended at its awaits, where the other may run.

\* The requests one call may send.
MaxConcurrentRequests == 2

Callers == {1, 2}

ConcurrentOperations ==
    {ApiModule_get_agents, ActivitiesModule_insert, WebhookModule_trigger_agent,
     LLMModule_chat, VectorStore_query, TTSModule_speak}

\* The answers of the upstream to the calls: a success, the permission
\* failures under either field, another failure, a body that is not JSON.
ConcurrentResponses ==
    {r \in Responses :
        /\ r.body.message = Absent
        /\ r.body.content = Absent
        /\ r.body.data = <<>>
        /\ r.body.error \in PermissionCodes => r.body.code = r.body.error
        /\ r.body.code # Absent => r.body.error = r.body.code
        /\ r.body.error \in PermissionCodes <=> r.status = 403
        /\ r.json => r.body.success # Absent
        /\ r.status = 200 <=> r.body.success = "True"}

ConcurrentAnswers ==
    {a \in BrokerAnswers : a.kind \in {"json", "timeout"} /\ a.granted \in {Absent, "True"}}

\* A coroutine not started: the arguments and the locals of a call, what it
\* has sent and received, and how it ended.
NoCall ==
    [pc |-> "idle", op |-> NoOperation, frame |-> FirstFrame(NoOperation),
     permission |-> Absent, message |-> Absent,
     requests |-> <<>>, responses |-> <<>>, brokerLog |-> <<>>, answers |-> <<>>,
     outcome |-> NoOutcome]

\* The handling of one response by the wrapper of the operation's module.
handle_response(o, r) ==
    CASE o.module = "api" -> ApiModule_api_call(r)
      [] o.module = "activities" -> ActivitiesModule_handle_response(r)
      [] o.module = "webhook" -> WebhookModule_handle_response(r)
      [] o.module = "llm" -> LLMModule_request(r)
      [] o.module = "vectors" -> VectorStore_request(r)
      [] o.module = "tts" -> TTSModule_request(r)
      [] OTHER -> TaskModule_send_event(r)

\* Mutant: permission and message are kept on the module, where the call
\* that asked last has overwritten them.
locals_on_the_module(cs, i) == cs[1]

\* The locals of coroutine i: response, data, permission and message live in
\* the frame of the invocation, one frame per call.
locals(cs, i) == cs[i]

----------------------------------------------------------------------------
\* The connections of a streaming call. Each invocation of chat_stream or
\* speak_stream enters "async with httpx.AsyncClient()" and "async with
\* client.stream(...)"; the invocation after a grant is iterated inside both
\* blocks of the invocation that asked.

\* The chunks the consumer takes before the model stops counting them.
MaxChunks == 2

\* await response.aread(): the body is read to its end and the response
\* closed, which gives the connection back to the client's pool; the
\* connection stays open there unless the upstream asked to close it.
aread(keep_alive) == IF keep_alive THEN "idle" ELSE "closed"

\* One invocation: its connection ("streaming" while the response is open,
\* "idle" in the pool of its client, "closed") and whether the generator is
\* still inside its "async with" blocks.
EnterStream(conn) == [conn |-> conn, live |-> TRUE]

\* Mutant: leaving the blocks ends the generator and closes nothing.
aexit_without_close(f) == [f EXCEPT !.live = FALSE]

\* __aexit__ of client.stream and of httpx.AsyncClient, run when the
\* generator leaves its blocks by return or by any exception, GeneratorExit
\* and CancelledError included: the response and the pool are closed.
aexit(f) == [f EXCEPT !.conn = "closed", !.live = FALSE]

Live(stack) == {i \in 1..Len(stack) : stack[i].live}

\* The innermost and the outermost invocation still inside their blocks.
Innermost(stack) == CHOOSE i \in Live(stack) : \A j \in Live(stack) : j <= i

Outermost(stack) == CHOOSE i \in Live(stack) : \A j \in Live(stack) : i <= j

\* A streaming generator nobody has called.
NoGenerator ==
    [pc |-> "none", name |-> Absent, stack |-> <<>>, chunks |-> 0, opened |-> 0,
     cancelled |-> FALSE]

----------------------------------------------------------------------------
\* RealtimeXSDK: construction and registration.

\* Bound: the calls of register() on one client, the task scheduled by the
\* constructor included.
MaxRegistrations == 2

\* The permissions a configuration declares.
DeclaredPermissions == {<<>>, <<"llm.chat">>, <<"llm.chat", "activities.read">>}

\* How the POST /sdk/register can end: the transport raises (or httpx cannot
\* be imported), or a response arrives whose body is a JSON object, a JSON
\* array or not JSON.
RegisterAnswers ==
    {[kind |-> "raises", status |-> 0, body |-> "none"]}
    \cup {[kind |-> "response", status |-> s, body |-> b] :
            s \in {200, 403, 500}, b \in {"object", "array", "nonjson"}}

\* What the response raises inside register(): response.json() on a body
\* that is not JSON, data.get on a body that is not an object (either print
\* evaluates it), nothing otherwise.
RealtimeXSDK_register_raised(ans) ==
    CASE ans.kind = "raises" -> "ConnectError"
      [] ans.body = "nonjson" -> "JSONDecodeError"
      [] ans.body = "array" -> "AttributeError"
      [] OTHER -> Absent

\* Mutant: only the errors of the transport are caught.
RealtimeXSDK_register_except_transport(raised) ==
    IF raised = "ConnectError" THEN Absent ELSE raised

\* "except Exception as e: print(...)": what leaves register().
RealtimeXSDK_register_except(raised) == Absent

\* The body of the POST.
RegisterRequest(s) ==
    [url |-> "/sdk/register", app_id |-> s.app_id, app_name |-> AppName,
     permissions |-> s.permissions, timeout |-> "60.0"]

NoSDK ==
    [pc |-> "none", permissions |-> <<>>, app_id |-> "", api_key |-> Absent,
     registered |-> FALSE, tasks |-> 0, calls |-> 0,
     requests |-> <<>>, answers |-> <<>>, raised |-> Absent]

----------------------------------------------------------------------------
\* LLMModule.embed_and_store and LLMModule.search: an embed request, then a
\* call on the vector store.

\* Bound: the texts given to embed_and_store, and the embeddings an embed
\* response carries.
MaxTexts == 2

Texts == {"t1", "t2"}
Embeddings == {"e1", "e2"}

SeqsUpTo(S, n) == UNION {[1..k -> S] : k \in 0..n}

TextLists == SeqsUpTo(Texts, MaxTexts)
EmbeddingLists == SeqsUpTo(Embeddings, MaxTexts)

\* The id_prefix argument: the default, or one the caller chose.
IdPrefixes == {"chunk", "doc"}

\* Outcomes of random.choices(ascii_lowercase + digits, k=4).
RandomSuffixes == {"a1b2", "zz9z"}

\* The answers to POST /sdk/llm/embed: a body with or without embeddings
\* (<<>> is a missing, null or empty list: "not embeddings" is true of each),
\* or a body that is not JSON.
EmbedResponses ==
    {[status |-> IF b.success = "True" THEN 200 ELSE 500, json |-> TRUE, body |-> b] :
        b \in {x \in [error : {Absent, "boom"},
                      code : {Absent, PERMISSION_REQUIRED, LLM_ERROR},
                      permission : {Absent}, message : {Absent},
                      success : {"True", "False"}, content : {Absent}, data : {<<>>},
                      embeddings : EmbeddingLists, model : {Absent, "m1"}] :
                /\ x.success = "True" => (x.error = Absent /\ x.code = Absent)
                /\ x.success = "False" => (x.embeddings = <<>> /\ x.model = Absent)
                /\ x.code = LLM_ERROR => x.error # Absent}}
    \cup {[status |-> 500, json |-> FALSE,
           body |-> [error |-> Absent, code |-> Absent, permission |-> Absent,
                     message |-> Absent, success |-> Absent, content |-> Absent,
                     data |-> <<>>, embeddings |-> <<>>, model |-> Absent]]}

\* The answers to POST /sdk/llm/vectors/upsert.
UpsertResponses ==
    {r \in Responses :
        /\ r.body.message = Absent /\ r.body.content = Absent /\ r.body.data = <<>>
        /\ r.body.permission = Absent
        /\ r.body.error \in {Absent, "boom"}
        /\ r.body.code # PERMISSION_DENIED
        /\ r.json => r.body.success # Absent
        /\ r.status = 200 <=> r.body.success = "True"}

\* EmbedResponse(success=data.get("success", False), embeddings=..., ...).
LLMModule_embed(data) ==
    [success |-> Get(data.body.success, "False"), embeddings |-> data.body.embeddings,
     model |-> data.body.model, error |-> data.body.error, code |-> data.body.code]

NoEmbedResponse ==
    [success |-> Absent, embeddings |-> <<>>, model |-> Absent, error |-> Absent,
     code |-> Absent]

\* "not embed_result.success or not embed_result.embeddings".
EmbedFailed(embed_result) ==
    ~Truthy(embed_result.success) \/ embed_result.embeddings = <<>>

\* VectorUpsertResponse(success=data.get("success", False), ...).
VectorStore_upsert(data) ==
    [kind |-> "return", success |-> Get(data.body.success, "False"),
     error |-> data.body.error, code |-> data.body.code]

EmbedRaise(kind, msg) == [kind |-> kind, success |-> Absent, error |-> msg, code |-> Absent]

EmbedOutcome(o) == EmbedRaise(o.kind, o.message)

NoEmbedOutcome == EmbedRaise("none", Absent)

\* unique_prefix: the prefix given, or chunk_<random suffix> for the default.
LLMModule_unique_prefix(id_prefix, random_suffix) ==
    IF id_prefix = "chunk" THEN <<"chunk", random_suffix>> ELSE <<id_prefix>>

\* The VectorRecords of embed_and_store, one per text: id
\* f"{unique_prefix}_{i}" for i from 0, vector embeddings[i].
LLMModule_vectors(texts, embeddings, unique_prefix) ==
    [k \in 1..Len(texts) |->
        [id |-> <<unique_prefix, k - 1>>, vector |-> embeddings[k], text |-> texts[k]]]

\* embed_and_store after embed() returned: the failure response, the
\* IndexError of embeddings[i] when the embeddings are fewer than the texts,
\* or the vectors to upsert.
LLMModule_embed_and_store(texts, embed_result, unique_prefix) ==
    IF EmbedFailed(embed_result)
    THEN [to |-> "done", vectors |-> <<>>,
          outcome |-> [kind |-> "return", success |-> "False",
                       error |-> IF Truthy(embed_result.error) THEN embed_result.error
                                 ELSE "Embedding failed",
                       code |-> embed_result.code]]
    ELSE IF Len(embed_result.embeddings) < Len(texts)
    THEN [to |-> "done", vectors |-> <<>>, outcome |-> EmbedRaise("IndexError", Absent)]
    ELSE [to |-> "upsert",
          vectors |-> LLMModule_vectors(texts, embed_result.embeddings, unique_prefix),
          outcome |-> NoEmbedOutcome]

\* search after embed() returned: LLMProviderError, or the call of
\* self.vectors.query(..., model=...), which VectorStore.query's signature
\* rejects with a TypeError before anything is sent.
LLMModule_search(embed_result) ==
    IF EmbedFailed(embed_result)
    THEN [to |-> "done", vectors |-> <<>>,
          outcome |-> EmbedRaise("LLMProviderError", "Failed to embed query")]
    ELSE [to |-> "done", vectors |-> <<>>, outcome |-> EmbedRaise("TypeError", Absent)]

NoEmbed ==
    [pc |-> "none", name |-> "none", texts |-> <<>>, id_prefix |-> "chunk",
     stage |-> "embed", requests |-> <<>>, broker |-> 0, permission |-> Absent,
     vectors |-> <<>>,
     embed_result |-> NoEmbedResponse, outcome |-> NoEmbedOutcome]

----------------------------------------------------------------------------
\* State.

VARIABLES
    api_key,      \* the client's API key, or Absent
    app_id,       \* the client's app id, or ""
    pc,           \* "idle", "request", "permission" or "done"
    op,           \* the operation called
    frame,        \* the arguments of the current invocation of the wrapper
    depth,        \* how many recursive invocations enclose the current one
    requests,     \* the requests sent to the protected endpoint, in order
    brokerLog,    \* the requests sent to the broker, each with its result
    first,        \* the upstream's response to the first request
    permission,   \* local of the wrapper while the broker is asked
    message,      \* local of the wrapper while the broker is asked
    lastAnswer,   \* how the latest broker call ended
    outcome,      \* how the call ended
    wire,         \* the text of the response stream not yet read
    sent,         \* the text of the response stream read so far
    dec,          \* the stream decoder: its locals, chunks yielded, error raised
    port,         \* a PortModule, the host it runs on and the call made on it
    calls,        \* the wrapped calls in progress on one client, one record each
    life,         \* a streaming generator: its invocations and their connections
    sdk,          \* a RealtimeXSDK: its permissions, _registered, what register() sent
    embed         \* an embed_and_store or search call: its requests and how it ended

streamVars == <<wire, sent, dec>>

callVars == <<api_key, app_id, pc, op, frame, depth, requests, brokerLog, first,
              permission, message, lastAnswer, outcome>>

otherVars == <<port, calls, life, sdk, embed>>

vars == <<api_key, app_id, pc, op, frame, depth, requests, brokerLog, first,
          permission, message, lastAnswer, outcome, wire, sent, dec, port, calls, life,
          sdk, embed>>

\* RealtimeXSDK.__init__: credentials from the configuration or the
\* environment, fixed from then on; no call made yet.
Init ==
    /\ api_key \in ApiKeys
    /\ app_id \in AppIds
    /\ pc = "idle"
    /\ op = NoOperation
    /\ frame = FirstFrame(NoOperation)
    /\ depth = 0
    /\ requests = <<>>
    /\ brokerLog = <<>>
    /\ first = NoResponse
    /\ permission = Absent
    /\ message = Absent
    /\ lastAnswer = NoAnswer
    /\ outcome = NoOutcome
    /\ wire = <<>>
    /\ sent = <<>>
    /\ dec = NoDecoder
    /\ port = NoPortModule
    /\ calls = <<>>
    /\ life = NoGenerator
    /\ sdk = NoSDK
    /\ embed = NoEmbed

\* The caller invokes one operation of a feature module; the operation
\* checks its arguments first and raises ValueError before any request.
Call ==
    /\ pc = "idle"
    /\ \E o \in Operations :
        /\ op' = o
        /\ frame' = FirstFrame(o)
        /\ IF validate(o) = Absent
           THEN pc' = "request" /\ outcome' = outcome
           ELSE pc' = "done" /\ outcome' = Raise("ValueError", validate(o))
    /\ UNCHANGED <<api_key, app_id, depth, requests, brokerLog, first, permission,
                   message, lastAnswer, wire, sent, dec, port, calls, life, sdk, embed>>

\* One invocation of a wrapper: the request is sent, the upstream answers r,
\* and the wrapper handles r up to its return, raise or broker call.
Exchange(r, step) ==
    /\ requests' = Append(requests, HttpRequest(op, frame, api_key, app_id))
    /\ first' = IF requests = <<>> THEN r ELSE first
    /\ pc' = step.to
    /\ permission' = step.permission
    /\ message' = step.message
    /\ outcome' = step.outcome
    /\ UNCHANGED <<api_key, app_id, op, frame, depth, brokerLog, lastAnswer,
                   wire, sent, dec, port, calls, life, sdk, embed>>

ApiCall ==
    /\ pc = "request" /\ op.module = "api"
    /\ \E r \in Responses : Exchange(r, ApiModule_api_call(r))

ActivitiesRequest ==
    /\ pc = "request" /\ op.module = "activities" /\ op.name # "get"
    /\ \E r \in Responses : Exchange(r, ActivitiesModule_handle_response(r))

ActivitiesGet ==
    /\ pc = "request" /\ op = ActivitiesModule_get
    /\ \E r \in Responses \cup NotFoundResponses :
        Exchange(r, ActivitiesModule_get_do_request(r, depth))

WebhookRequest ==
    /\ pc = "request" /\ op.module = "webhook"
    /\ \E r \in Responses : Exchange(r, WebhookModule_handle_response(r))

LLMRequest ==
    /\ pc = "request" /\ op.module = "llm"
    /\ \E r \in Responses : Exchange(r, LLMModule_request(r))

VectorRequest ==
    /\ pc = "request" /\ op.module = "vectors"
    /\ \E r \in Responses : Exchange(r, VectorStore_request(r))

TTSRequest ==
    /\ pc = "request" /\ op.module = "tts"
    /\ \E r \in Responses : Exchange(r, TTSModule_request(r))

TaskSendEvent ==
    /\ pc = "request" /\ op.module = "task"
    /\ \E r \in Responses : Exchange(r, TaskModule_send_event(r))

\* The wrapper awaits _request_permission and then either invokes itself
\* again with the same arguments or raises PermissionDeniedError.
RequestPermission ==
    /\ pc = "permission"
    /\ \E ans \in BrokerAnswers :
        LET granted == request_permission(ans)
        IN  /\ lastAnswer' = ans
            /\ brokerLog' = Append(brokerLog,
                   [request |-> BrokerRequest(app_id, permission),
                    granted |-> Truthy(granted)])
            /\ IF Truthy(granted)
               THEN /\ Len(requests) < MaxRequests
                    /\ pc' = "request"
                    /\ frame' = RetryFrame(frame)
                    /\ depth' = depth + 1
                    /\ outcome' = outcome
               ELSE /\ pc' = "done"
                    /\ frame' = frame
                    /\ depth' = depth
                    /\ outcome' = RaiseDenied(op.module, permission, message)
    /\ permission' = Absent
    /\ message' = Absent
    /\ UNCHANGED <<api_key, app_id, op, requests, first, wire, sent, dec, port, calls, life, sdk, embed>>

Next ==
    \/ Call
    \/ ApiCall
    \/ ActivitiesRequest
    \/ ActivitiesGet
    \/ WebhookRequest
    \/ LLMRequest
    \/ VectorRequest
    \/ TTSRequest
    \/ TaskSendEvent
    \/ RequestPermission

Spec == Init /\ [][Next]_vars

----------------------------------------------------------------------------
\* Decoding a response stream: the upstream has answered 200 and the decoder
\* reads the body in pieces, cut wherever the transport cuts them.

StreamInit ==
    /\ api_key = "sk-dev"
    /\ app_id = "app-1"
    /\ pc = "idle"
    /\ op = NoOperation
    /\ frame = FirstFrame(NoOperation)
    /\ depth = 0
    /\ requests = <<>>
    /\ brokerLog = <<>>
    /\ first = NoResponse
    /\ permission = Absent
    /\ message = Absent
    /\ lastAnswer = NoAnswer
    /\ outcome = NoOutcome
    /\ wire = <<>>
    /\ sent = <<>>
    /\ dec = NoDecoder
    /\ port = NoPortModule
    /\ calls = <<>>
    /\ life = NoGenerator
    /\ sdk = NoSDK
    /\ embed = NoEmbed

\* The response is a 200: the decoder starts on the stream the upstream is
\* about to send.
StreamOpen ==
    /\ dec.state = "idle"
    /\ \E name \in {"chat_stream", "speak_stream"}, text \in Streams :
        /\ dec' = OpenDecoder(name)
        /\ wire' = text
    /\ sent' = <<>>
    /\ UNCHANGED callVars
    /\ UNCHANGED otherVars

\* One iteration of "async for chunk in response.aiter_text()" of
\* chat_stream: the next piece of the body, of any length, is decoded.
ChatStreamRead ==
    /\ dec.state = "open" /\ dec.decoder = "chat_stream"
    /\ \E k \in 1..Len(wire) :
        /\ dec' = LLMModule_chat_stream_read(dec, SubSeq(wire, 1, k))
        /\ sent' = sent \o SubSeq(wire, 1, k)
        /\ wire' = SubSeq(wire, k + 1, Len(wire))
    /\ UNCHANGED callVars
    /\ UNCHANGED otherVars

\* The same iteration of speak_stream.
SpeakStreamRead ==
    /\ dec.state = "open" /\ dec.decoder = "speak_stream"
    /\ \E k \in 1..Len(wire) :
        /\ dec' = TTSModule_speak_stream_read(dec, SubSeq(wire, 1, k))
        /\ sent' = sent \o SubSeq(wire, 1, k)
        /\ wire' = SubSeq(wire, k + 1, Len(wire))
    /\ UNCHANGED callVars
    /\ UNCHANGED otherVars

\* The upstream closes the connection: the loop ends and the generator
\* returns; what is left in the buffer is not decoded.
StreamEnd ==
    /\ dec.state = "open" /\ wire = <<>>
    /\ dec' = end_of_stream(dec)
    /\ UNCHANGED <<wire, sent>>
    /\ UNCHANGED callVars
    /\ UNCHANGED otherVars

\* The responses to a streaming request: on a 200 the body is the event
\* stream, not a JSON document.
StreamResponses == {r \in Responses : r.status = 200 => (~r.json /\ r.body = EmptyBody)}

\* chat_stream on a response whose status is not 200.
LLMModule_chat_stream_failed(r) ==
    IF ~r.json THEN Finish(Raise("LLMProviderError", "Stream failed: {data}"))
    ELSE LET error_data == r.body
         IN  IF error_data.code = PERMISSION_REQUIRED
             THEN AskPermission(Get(error_data.permission, "llm.chat"), Absent)
             ELSE Finish(Raise("LLMProviderError",
                               Get(error_data.error, "Stream request failed")))

\* speak_stream on a response whose status is not 200; raise_for_status
\* raises on the statuses of the model.
TTSModule_speak_stream_failed(r) ==
    IF ~r.json THEN Finish(Raise("HTTPStatusError", Absent))
    ELSE LET data == r.body
         IN  IF data.code = PERMISSION_REQUIRED
             THEN AskPermission(Get(data.permission, "tts.generate"), Absent)
             ELSE Finish(Raise("Exception", Get(data.error, "Stream failed: {status}")))

\* How the generator ends once the stream is decoded: it returns, or the
\* error raised in the stream reaches the caller.
StreamOutcome(d) ==
    IF d.state = "raised" THEN Raise(d.error.kind, d.error.message)
    ELSE Return(NoResponse)

\* The caller iterates over chat_stream or speak_stream.
StreamCall ==
    /\ pc = "idle"
    /\ \E o \in StreamOperations :
        /\ op' = o
        /\ frame' = FirstFrame(o)
    /\ pc' = "request"
    /\ UNCHANGED <<api_key, app_id, depth, requests, brokerLog, first, permission,
                   message, lastAnswer, outcome, wire, sent, dec, port, calls, life, sdk, embed>>

\* One invocation of a streaming generator: the request is sent and the
\* upstream answers r. On a 200 the body, some stream, is decoded up to the
\* end of the stream or to the error raised in it; on any other status the
\* generator raises or asks the broker.
StreamExchange(r, step) ==
    /\ requests' = Append(requests, HttpRequest(op, frame, api_key, app_id))
    /\ first' = IF requests = <<>> THEN r ELSE first
    /\ IF r.status = 200
       THEN \E text \in Streams :
               LET d == StreamRead(OpenDecoder(op.name), text)
               IN  /\ dec' = IF d.state = "raised" THEN d ELSE [d EXCEPT !.state = "closed"]
                   /\ sent' = text
                   /\ outcome' = StreamOutcome(d)
                   /\ pc' = "done"
                   /\ permission' = Absent
                   /\ message' = Absent
       ELSE /\ pc' = step.to
            /\ permission' = step.permission
            /\ message' = step.message
            /\ outcome' = step.outcome
            /\ UNCHANGED <<sent, dec>>
    /\ UNCHANGED <<api_key, app_id, op, frame, depth, brokerLog, lastAnswer, wire>>
    /\ UNCHANGED otherVars

ChatStreamRequest ==
    /\ pc = "request" /\ op = LLMModule_chat_stream
    /\ \E r \in StreamResponses :
        StreamExchange(r, LLMModule_chat_stream_failed(r))

SpeakStreamRequest ==
    /\ pc = "request" /\ op = TTSModule_speak_stream
    /\ \E r \in StreamResponses :
        StreamExchange(r, TTSModule_speak_stream_failed(r))

\* A streaming call from its request to its end; after a grant the
\* generator iterates over itself, called with the same arguments.
StreamCallNext ==
    \/ StreamCall
    \/ ChatStreamRequest
    \/ SpeakStreamRequest
    \/ RequestPermission

StreamCallSpec == StreamInit /\ [][StreamCallNext]_vars

StreamNext ==
    \/ StreamOpen
    \/ ChatStreamRead
    \/ SpeakStreamRead
    \/ StreamEnd

StreamSpec == StreamInit /\ [][StreamNext]_vars

----------------------------------------------------------------------------
\* The port search on a host: one call of a PortModule.

\* PortModule() on some host, with or without RTX_PORT in the environment.
PortInit ==
    /\ api_key = "sk-dev"
    /\ app_id = "app-1"
    /\ pc = "idle"
    /\ op = NoOperation
    /\ frame = FirstFrame(NoOperation)
    /\ depth = 0
    /\ requests = <<>>
    /\ brokerLog = <<>>
    /\ first = NoResponse
    /\ permission = Absent
    /\ message = Absent
    /\ lastAnswer = NoAnswer
    /\ outcome = NoOutcome
    /\ wire = <<>>
    /\ sent = <<>>
    /\ dec = NoDecoder
    /\ \E env \in EnvPorts, w \in Worlds :
        port = [NoPortModule EXCEPT !.pc = "idle", !.env = env, !.world = w]
    /\ calls = <<>>
    /\ life = NoGenerator
    /\ sdk = NoSDK
    /\ embed = NoEmbed

\* find_available_port(start_port, max_attempts), the ports it may try
\* being ports of the host.
FindAvailablePort ==
    /\ port.pc = "idle"
    /\ \E start_port \in {NoPort} \cup Ports, max_attempts \in 0..PortCount :
        LET p == IF start_port # NoPort THEN start_port
                 ELSE PortModule_get_suggested_port(port.env)
        IN  /\ p # NoPort => p + max_attempts <= default_port + PortCount
            /\ port' = [port EXCEPT
                    !.pc = "done",
                    !.call = "find_available_port",
                    !.start_port = p,
                    !.max_attempts = max_attempts,
                    !.result = PortModule_find_available_port(
                                   port.world, port.env, start_port, max_attempts, <<>>)]
    /\ UNCHANGED <<callVars, streamVars, calls, life, sdk, embed>>

\* get_port().
GetPort ==
    /\ port.pc = "idle"
    /\ port' = [port EXCEPT
            !.pc = "done",
            !.call = "get_port",
            !.start_port = PortModule_get_suggested_port(port.env),
            !.result = PortModule_get_port(port.world, port.env)]
    /\ UNCHANGED <<callVars, streamVars, calls, life, sdk, embed>>

\* is_port_available(port) on a port of the host: the result is the kind of
\* the outcome, "True" or "False".
IsPortAvailable ==
    /\ port.pc = "idle"
    /\ \E p \in Ports :
        port' = [port EXCEPT
            !.pc = "done",
            !.call = "is_port_available",
            !.start_port = p,
            !.result = [kind |-> IF PortModule_is_port_available(port.world, p)
                                 THEN "True" ELSE "False",
                        port |-> p, probed |-> <<p>>]]
    /\ UNCHANGED <<callVars, streamVars, calls, life, sdk, embed>>

PortNext ==
    \/ FindAvailablePort
    \/ GetPort
    \/ IsPortAvailable

PortSpec == PortInit /\ [][PortNext]_vars

----------------------------------------------------------------------------
\* Concurrent calls: every step is one call running from one await to the
\* next, in any order with the steps of the other call.

ConcurrentInit ==
    /\ api_key \in ApiKeys
    /\ app_id = "app-1"
    /\ pc = "idle"
    /\ op = NoOperation
    /\ frame = FirstFrame(NoOperation)
    /\ depth = 0
    /\ requests = <<>>
    /\ brokerLog = <<>>
    /\ first = NoResponse
    /\ permission = Absent
    /\ message = Absent
    /\ lastAnswer = NoAnswer
    /\ outcome = NoOutcome
    /\ wire = <<>>
    /\ sent = <<>>
    /\ dec = NoDecoder
    /\ port = NoPortModule
    /\ calls = [i \in Callers |-> NoCall]
    /\ life = NoGenerator
    /\ sdk = NoSDK
    /\ embed = NoEmbed

\* Coroutine i is created: an operation is called.
ConcurrentCall(i) ==
    /\ calls[i].pc = "idle"
    /\ \E o \in ConcurrentOperations :
        calls' = [calls EXCEPT ![i] =
                    [@ EXCEPT !.pc = "request", !.op = o, !.frame = FirstFrame(o)]]
    /\ UNCHANGED <<callVars, streamVars, port, life, sdk, embed>>

\* Coroutine i resumes from "await client.request(...)" with the response r
\* and runs to its end or to "await self._request_permission(...)".
ConcurrentExchange(i) ==
    /\ calls[i].pc = "request"
    /\ \E r \in ConcurrentResponses :
        LET c == calls[i]
            step == handle_response(c.op, r)
        IN  calls' = [calls EXCEPT ![i] =
                [c EXCEPT
                    !.requests = Append(c.requests, HttpRequest(c.op, c.frame, api_key, app_id)),
                    !.responses = Append(c.responses, r),
                    !.pc = step.to,
                    !.permission = step.permission,
                    !.message = step.message,
                    !.outcome = step.outcome]]
    /\ UNCHANGED <<callVars, streamVars, port, life, sdk, embed>>

\* Coroutine i resumes from "await self._request_permission(permission)"
\* with the broker's answer and invokes the wrapper again or raises.
ConcurrentRequestPermission(i) ==
    /\ calls[i].pc = "permission"
    /\ \E ans \in ConcurrentAnswers :
        LET c == calls[i]
            mine == locals(calls, i)
            granted == request_permission(ans)
        IN  /\ Truthy(granted) => Len(c.requests) < MaxConcurrentRequests
            /\ calls' = [calls EXCEPT ![i] =
                [c EXCEPT
                    !.answers = Append(c.answers, ans),
                    !.brokerLog = Append(c.brokerLog,
                        [request |-> BrokerRequest(app_id, mine.permission),
                         granted |-> Truthy(granted)]),
                    !.pc = IF Truthy(granted) THEN "request" ELSE "done",
                    !.frame = IF Truthy(granted) THEN RetryFrame(c.frame) ELSE c.frame,
                    !.permission = Absent,
                    !.message = Absent,
                    !.outcome = IF Truthy(granted) THEN c.outcome
                                ELSE RaiseDenied(c.op.module, mine.permission, mine.message)]]
    /\ UNCHANGED <<callVars, streamVars, port, life, sdk, embed>>

ConcurrentNext ==
    \/ \E i \in Callers : ConcurrentCall(i)
    \/ \E i \in Callers : ConcurrentExchange(i)
    \/ \E i \in Callers : ConcurrentRequestPermission(i)

ConcurrentSpec == ConcurrentInit /\ [][ConcurrentNext]_vars

----------------------------------------------------------------------------
\* The life of a streaming generator: the consumer iterates over it and may
\* stop at any point; the event loop runs what is left to run.

StreamLifeInit ==
    /\ api_key = "sk-dev"
    /\ app_id = "app-1"
    /\ pc = "idle"
    /\ op = NoOperation
    /\ frame = FirstFrame(NoOperation)
    /\ depth = 0
    /\ requests = <<>>
    /\ brokerLog = <<>>
    /\ first = NoResponse
    /\ permission = Absent
    /\ message = Absent
    /\ lastAnswer = NoAnswer
    /\ outcome = NoOutcome
    /\ wire = <<>>
    /\ sent = <<>>
    /\ dec = NoDecoder
    /\ port = NoPortModule
    /\ calls = <<>>
    /\ life = [NoGenerator EXCEPT !.pc = "idle"]
    /\ sdk = NoSDK
    /\ embed = NoEmbed

\* The consumer creates the generator and asks for its first chunk.
StreamLifeCall ==
    /\ life.pc = "idle"
    /\ \E o \in StreamOperations :
        life' = [life EXCEPT !.pc = "request", !.name = o.name]
    /\ UNCHANGED <<callVars, streamVars, port, calls, sdk, embed>>

\* The innermost invocation enters its blocks: the connection is opened and
\* the response's status read. On a 200 the body stays to be streamed; on
\* any other status the body is read whole, and the invocation asks the
\* broker or raises.
StreamLifeRequest ==
    /\ life.pc = "request"
    /\ \E r \in StreamResponses, keep_alive \in BOOLEAN :
        LET step == IF life.name = "chat_stream"
                    THEN LLMModule_chat_stream_failed(r)
                    ELSE TTSModule_speak_stream_failed(r)
        IN  life' = [life EXCEPT
                !.opened = @ + 1,
                !.stack = Append(@, EnterStream(IF r.status = 200 THEN "streaming"
                                                ELSE aread(keep_alive))),
                !.pc = IF r.status = 200 THEN "reading"
                       ELSE IF step.to = "permission" THEN "broker"
                       ELSE "raising"]
    /\ UNCHANGED <<callVars, streamVars, port, calls, sdk, embed>>

\* _request_permission returns: on a grant the generator iterates over a
\* new invocation of itself, still inside its own blocks; otherwise it
\* raises PermissionDeniedError.
StreamLifeRequestPermission ==
    /\ life.pc = "broker"
    /\ \E ans \in BrokerAnswers :
        IF Truthy(request_permission(ans))
        THEN /\ Len(life.stack) < MaxRequests
             /\ life' = [life EXCEPT !.pc = "request"]
        ELSE life' = [life EXCEPT !.pc = "raising"]
    /\ UNCHANGED <<callVars, streamVars, port, calls, sdk, embed>>

\* The innermost invocation decodes what it reads next: a chunk, which every
\* enclosing invocation yields on to the consumer; the end of the stream;
\* or an error frame, which raises.
StreamLifeRead ==
    /\ life.pc = "reading"
    /\ \E event \in {"chunk", "end", "error"} :
        /\ event = "chunk" => life.chunks < MaxChunks
        /\ life' = [life EXCEPT
                !.chunks = IF event = "chunk" THEN @ + 1 ELSE @,
                !.pc = CASE event = "chunk" -> "yielded"
                         [] event = "end" -> "returning"
                         [] OTHER -> "raising"]
    /\ UNCHANGED <<callVars, streamVars, port, calls, sdk, embed>>

\* The consumer asks for the next chunk.
StreamLifeAnext ==
    /\ life.pc = "yielded"
    /\ life' = [life EXCEPT !.pc = "reading"]
    /\ UNCHANGED <<callVars, streamVars, port, calls, sdk, embed>>

\* A return or an exception leaves the blocks of the innermost invocation
\* still inside them, and goes on in the invocation that iterates over it.
StreamLifeExit ==
    /\ life.pc \in {"returning", "raising"}
    /\ IF Live(life.stack) = {}
       THEN life' = [life EXCEPT !.pc = "ended"]
       ELSE life' = [life EXCEPT
                !.stack[Innermost(life.stack)] = aexit(@)]
    /\ UNCHANGED <<callVars, streamVars, port, calls, sdk, embed>>

\* The consumer stops iterating and closes the generator: aclose() before
\* the first chunk was asked for or while the generator is suspended at a
\* yield.
StreamLifeAclose ==
    /\ life.pc \in {"idle", "yielded"}
    /\ life' = [life EXCEPT !.cancelled = TRUE,
                            !.pc = IF life.pc = "idle" THEN "ended" ELSE "closing"]
    /\ UNCHANGED <<callVars, streamVars, port, calls, sdk, embed>>

\* The task that iterates is cancelled while the generator awaits the
\* upstream or the broker: CancelledError is raised at that await.
StreamLifeCancelTask ==
    /\ life.pc \in {"request", "broker", "reading"}
    /\ life' = [life EXCEPT !.cancelled = TRUE, !.pc = "raising"]
    /\ UNCHANGED <<callVars, streamVars, port, calls, sdk, embed>>

\* GeneratorExit is raised at the yield of the generator the consumer
\* holds, the outermost invocation, and leaves its blocks. "async for" does
\* not close the generator it iterated over: the invocation inside is left
\* suspended at its own yield.
StreamLifeGeneratorExit ==
    /\ life.pc = "closing"
    /\ life' = [life EXCEPT
            !.stack[1] = aexit(@),
            !.pc = IF Live(life.stack) = {1} THEN "ended" ELSE "finalizing"]
    /\ UNCHANGED <<callVars, streamVars, port, calls, sdk, embed>>

\* The event loop's asynchronous generator hook: a suspended generator
\* nothing refers to any more is closed by a task the loop schedules.
StreamLifeFinalize ==
    /\ life.pc = "finalizing"
    /\ life' = [life EXCEPT
            !.stack[Outermost(life.stack)] = aexit(@),
            !.pc = IF Cardinality(Live(life.stack)) = 1 THEN "ended" ELSE "finalizing"]
    /\ UNCHANGED <<callVars, streamVars, port, calls, sdk, embed>>

StreamLifeNext ==
    \/ StreamLifeCall
    \/ StreamLifeRequest
    \/ StreamLifeRequestPermission
    \/ StreamLifeRead
    \/ StreamLifeAnext
    \/ StreamLifeExit
    \/ StreamLifeAclose
    \/ StreamLifeCancelTask
    \/ StreamLifeGeneratorExit
    \/ StreamLifeFinalize

StreamLifeSpec == StreamLifeInit /\ [][StreamLifeNext]_vars

\* The running task goes on until it ends, and the loop runs the tasks it
\* has scheduled.
StreamLifeFairSpec ==
    /\ StreamLifeSpec
    /\ WF_vars(StreamLifeExit)
    /\ WF_vars(StreamLifeGeneratorExit)
    /\ WF_vars(StreamLifeFinalize)

----------------------------------------------------------------------------
\* The registration of a client.

SdkInit ==
    /\ api_key = "sk-dev"
    /\ app_id = "app-1"
    /\ pc = "idle"
    /\ op = NoOperation
    /\ frame = FirstFrame(NoOperation)
    /\ depth = 0
    /\ requests = <<>>
    /\ brokerLog = <<>>
    /\ first = NoResponse
    /\ permission = Absent
    /\ message = Absent
    /\ lastAnswer = NoAnswer
    /\ outcome = NoOutcome
    /\ wire = <<>>
    /\ sent = <<>>
    /\ dec = NoDecoder
    /\ port = NoPortModule
    /\ calls = <<>>
    /\ life = NoGenerator
    /\ sdk = NoSDK
    /\ embed = NoEmbed

\* RealtimeXSDK.__init__: _registered is False; with permissions declared,
\* an app id and no API key, register() is scheduled as a task if the event
\* loop is running.
SdkConstruct ==
    /\ sdk.pc = "none"
    /\ \E perms \in DeclaredPermissions, id \in AppIds, key \in ApiKeys,
          is_running \in BOOLEAN :
        sdk' = [sdk EXCEPT
            !.pc = "ready", !.permissions = perms, !.app_id = id, !.api_key = key,
            !.registered = FALSE,
            !.tasks = IF perms # <<>> /\ Truthy(id) /\ ~Truthy(key) /\ is_running
                      THEN 1 ELSE 0]
    /\ UNCHANGED <<callVars, streamVars, port, calls, life, embed>>

\* register() starts, called by the application or as the scheduled task:
\* it returns at once without permissions, and sends the POST otherwise.
SdkRegister ==
    /\ sdk.pc = "ready"
    /\ sdk.calls < MaxRegistrations
    /\ \E scheduled \in BOOLEAN :
        /\ scheduled => sdk.tasks > 0
        /\ sdk' = [sdk EXCEPT
                !.calls = @ + 1,
                !.tasks = IF scheduled THEN @ - 1 ELSE @,
                !.pc = IF sdk.permissions = <<>> THEN "ready" ELSE "awaiting",
                !.requests = IF sdk.permissions = <<>> THEN @
                             ELSE Append(@, RegisterRequest(sdk))]
    /\ UNCHANGED <<callVars, streamVars, port, calls, life, embed>>

\* The POST ends: _registered is set after a response that is a success
\* with an object for a body; anything raised is printed.
SdkRegisterResponse ==
    /\ sdk.pc = "awaiting"
    /\ \E ans \in RegisterAnswers :
        LET raised == RealtimeXSDK_register_raised(ans)
        IN  sdk' = [sdk EXCEPT
                !.pc = "ready",
                !.answers = Append(@, ans),
                !.registered = IF raised = Absent /\ IsSuccess(ans.status) THEN TRUE ELSE @,
                !.raised = RealtimeXSDK_register_except(raised)]
    /\ UNCHANGED <<callVars, streamVars, port, calls, life, embed>>

SdkNext ==
    \/ SdkConstruct
    \/ SdkRegister
    \/ SdkRegisterResponse

SdkSpec == SdkInit /\ [][SdkNext]_vars

----------------------------------------------------------------------------
\* A call of embed_and_store or search.

EmbedInit ==
    /\ api_key = "sk-dev"
    /\ app_id = "app-1"
    /\ pc = "idle"
    /\ op = NoOperation
    /\ frame = FirstFrame(NoOperation)
    /\ depth = 0
    /\ requests = <<>>
    /\ brokerLog = <<>>
    /\ first = NoResponse
    /\ permission = Absent
    /\ message = Absent
    /\ lastAnswer = NoAnswer
    /\ outcome = NoOutcome
    /\ wire = <<>>
    /\ sent = <<>>
    /\ dec = NoDecoder
    /\ port = NoPortModule
    /\ calls = <<>>
    /\ life = NoGenerator
    /\ sdk = NoSDK
    /\ embed = [NoEmbed EXCEPT !.pc = "idle"]

\* The application calls embed_and_store(texts, id_prefix=...) or
\* search(query); embed() makes a list of the query.
EmbedCall ==
    /\ embed.pc = "idle"
    /\ \/ \E texts \in TextLists, id_prefix \in IdPrefixes :
            embed' = [embed EXCEPT !.pc = "request", !.name = "embed_and_store",
                                   !.texts = texts, !.id_prefix = id_prefix]
       \/ \E query \in Texts :
            embed' = [embed EXCEPT !.pc = "request", !.name = "search",
                                   !.texts = <<query>>]
    /\ UNCHANGED <<callVars, streamVars, port, calls, life, sdk>>

\* LLMModule._request sends POST /sdk/llm/embed and handles the response;
\* when it returns, the helper goes on up to its next request or its end.
EmbedRequest ==
    /\ embed.pc = "request"
    /\ embed.stage = "embed"
    /\ \E r \in EmbedResponses, random_suffix \in RandomSuffixes :
        LET step == LLMModule_request(r)
            sent_now == Append(embed.requests,
                               [endpoint |-> "/sdk/llm/embed", input |-> embed.texts,
                                vectors |-> <<>>])
            embed_result == LLMModule_embed(step.outcome.data)
            next == IF embed.name = "search" THEN LLMModule_search(embed_result)
                    ELSE LLMModule_embed_and_store(embed.texts, embed_result,
                            LLMModule_unique_prefix(embed.id_prefix, random_suffix))
        IN  CASE step.to = "permission" ->
                    embed' = [embed EXCEPT !.requests = sent_now, !.pc = "permission",
                                           !.permission = step.permission]
              [] step.to = "done" /\ step.outcome.kind # "return" ->
                    embed' = [embed EXCEPT !.requests = sent_now, !.pc = "done",
                                           !.outcome = EmbedOutcome(step.outcome)]
              [] OTHER ->
                    embed' = [embed EXCEPT
                        !.requests = sent_now,
                        !.embed_result = embed_result,
                        !.vectors = next.vectors,
                        !.stage = IF next.to = "upsert" THEN "upsert" ELSE @,
                        !.pc = IF next.to = "upsert" THEN "request" ELSE "done",
                        !.outcome = next.outcome,
                        !.permission = Absent]
    /\ UNCHANGED <<callVars, streamVars, port, calls, life, sdk>>

\* VectorStore._request sends POST /sdk/llm/vectors/upsert with the vectors
\* and handles the response; upsert() wraps the body it returns.
EmbedUpsert ==
    /\ embed.pc = "request"
    /\ embed.stage = "upsert"
    /\ \E r \in UpsertResponses :
        LET step == VectorStore_request(r)
            sent_now == Append(embed.requests,
                               [endpoint |-> "/sdk/llm/vectors/upsert", input |-> <<>>,
                                vectors |-> embed.vectors])
        IN  CASE step.to = "permission" ->
                    embed' = [embed EXCEPT !.requests = sent_now, !.pc = "permission",
                                           !.permission = step.permission]
              [] step.to = "done" /\ step.outcome.kind # "return" ->
                    embed' = [embed EXCEPT !.requests = sent_now, !.pc = "done",
                                           !.outcome = EmbedOutcome(step.outcome)]
              [] OTHER ->
                    embed' = [embed EXCEPT !.requests = sent_now, !.pc = "done",
                                           !.outcome = VectorStore_upsert(step.outcome.data)]
    /\ UNCHANGED <<callVars, streamVars, port, calls, life, sdk>>

\* _request_permission returns to the wrapper that called it: the request
\* is sent again after a grant, PermissionDeniedError(permission) is raised
\* otherwise.
EmbedRequestPermission ==
    /\ embed.pc = "permission"
    /\ \E ans \in BrokerAnswers :
        IF Truthy(request_permission(ans))
        THEN /\ Len(embed.requests) < MaxRequests
             /\ embed' = [embed EXCEPT !.pc = "request", !.broker = @ + 1,
                                       !.permission = Absent]
        ELSE embed' = [embed EXCEPT
                !.pc = "done", !.broker = @ + 1,
                !.outcome = EmbedOutcome(RaiseDenied(IF embed.stage = "embed" THEN "llm"
                                                     ELSE "vectors",
                                                     embed.permission, Absent))]
    /\ UNCHANGED <<callVars, streamVars, port, calls, life, sdk>>

EmbedNext ==
    \/ EmbedCall
    \/ EmbedRequest
    \/ EmbedUpsert
    \/ EmbedRequestPermission

EmbedSpec == EmbedInit /\ [][EmbedNext]_vars

----------------------------------------------------------------------------
\* Vocabulary of the properties.

Wrapped == op.module \in WrappedModules

\* The response names the failure in its error field or in its code field.
SignalsRequired(r) ==
    r.json /\ (r.body.error = PERMISSION_REQUIRED \/ r.body.code = PERMISSION_REQUIRED)

SignalsDenied(r) ==
    r.json /\ (r.body.error = PERMISSION_DENIED \/ r.body.code = PERMISSION_DENIED)

\* A 403 whose error field and code field both name the failure.
PlainlyDenied(r) ==
    /\ r.json /\ r.status = 403
    /\ r.body.error = PERMISSION_DENIED /\ r.body.code = PERMISSION_DENIED

BrokerCalled == brokerLog # <<>>
FirstGranted == BrokerCalled /\ brokerLog[1].granted
FirstRefused == BrokerCalled /\ ~brokerLog[1].granted

\* The broker call did not end with a JSON body whose granted is true.
NotATrueGrant(ans) == ans.kind # "json" \/ ans.granted # "True"

AuthHeaderNames == {"Authorization", "x-app-id"}

----------------------------------------------------------------------------
\* C1: when the first response signals PERMISSION_REQUIRED and the broker
\* grants, the protected endpoint is replayed exactly once and the broker is
\* invoked at most once for the call, even if the replay answers
\* PERMISSION_REQUIRED again.
C1_OneReplayOneBrokerCall ==
    (Wrapped /\ SignalsRequired(first) /\ FirstGranted) =>
        /\ Len(brokerLog) = 1
        /\ Len(requests) <= 2
        /\ (pc = "done" => Len(requests) = 2)

\* C2: the recovery recursion of a wrapped call is bounded to depth 1, which
\* is what makes every call terminate.
C2_DepthAtMostOne ==
    Wrapped => depth <= 1

\* C3: when the first response signals PERMISSION_REQUIRED with permission p
\* and the broker denies, the call fails with PermissionDeniedError whose
\* permission is p, after exactly one request to the protected endpoint.
C3_RefusedRaisesDeniedWithPermission ==
    (/\ pc = "done" /\ Wrapped
     /\ SignalsRequired(first) /\ first.body.permission # Absent
     /\ FirstRefused) =>
        /\ outcome.kind = "PermissionDeniedError"
        /\ outcome.permission = first.body.permission
        /\ Len(requests) = 1

C3_Witness ==
    /\ pc = "done" /\ Wrapped
    /\ SignalsRequired(first) /\ first.body.permission # Absent
    /\ FirstRefused
    /\ outcome.kind = "PermissionDeniedError"

C5_DeniedRaisesPermissionDenied ==
    (pc = "done" /\ Wrapped /\ PlainlyDenied(first)) =>
        outcome.kind = "PermissionDeniedError"

\* The first response of the chat scenario of spec section 8:
\* HTTP 403 with {"error":"PERMISSION_REQUIRED","permission":"llm.chat"}.
ChatScenarioResponse ==
    [status |-> 403, json |-> TRUE,
     body |-> [EmptyBody EXCEPT !.error = PERMISSION_REQUIRED, !.permission = "llm.chat"]]

\* C6: in the chat scenario the broker is called with permission "llm.chat",
\* and when it grants and the replay returns the success body with content
\* "hello", the ChatResponse returned has content "hello".
C6_ChatScenario ==
    (pc = "done" /\ op = LLMModule_chat /\ first = ChatScenarioResponse) =>
        /\ BrokerCalled
        /\ brokerLog[1].request.permission = "llm.chat"
        /\ (/\ FirstGranted /\ Len(requests) = 2 /\ outcome.kind = "return"
            /\ outcome.data.body.content = "hello") =>
               LLMModule_chat_response(outcome.data).content = "hello"

C8_EveryRequestAuthenticated ==
    \A i \in 1..Len(requests) :
        (Truthy(api_key) \/ Truthy(app_id)) =>
            HeaderNames(requests[i].headers) \cap AuthHeaderNames # {}

\* C9: after a grant the replayed request is identical to the original one:
\* same method, path, JSON body, query parameters and headers.
C9_ReplayIdentical ==
    \A i \in 1..Len(requests) : requests[i] = requests[1]

C9_Witness ==
    /\ Len(requests) >= 2 /\ FirstGranted
    /\ requests[2] = requests[1] /\ requests[1].json # Absent

\* C10: a broker call that raises, times out, answers a non-JSON body or a
\* body without a true granted value counts as a denial: the call fails with
\* PermissionDeniedError carrying the permission name and the server's
\* message, and the protected endpoint is not replayed.
C10_FailClosed ==
    (Wrapped /\ Len(brokerLog) = 1 /\ NotATrueGrant(lastAnswer)) =>
        /\ pc = "done"
        /\ Len(requests) = 1
        /\ outcome.kind = "PermissionDeniedError"
        /\ outcome.permission = brokerLog[1].request.permission
        /\ first.body.message # Absent => outcome.message = first.body.message

----------------------------------------------------------------------------
\* A response of success: a 2xx status and a JSON body that reports no error.
SuccessResponse(r) ==
    IsSuccess(r.status) /\ r.json /\ r.body.error = Absent /\ r.body.code = Absent

\* C11: the broker is invoked only when the response signals
\* PERMISSION_REQUIRED and carries a permission string, and the permission it
\* is sent, with the app id and the app name, is that string: a response
\* without a permission field never leads to a broker call with a substituted
\* permission.
C11_BrokerGetsResponsePermission ==
    (Wrapped /\ BrokerCalled) =>
        /\ SignalsRequired(first)
        /\ first.body.permission # Absent
        /\ brokerLog[1].request.permission = first.body.permission
        /\ brokerLog[1].request.app_id = app_id
        /\ brokerLog[1].request.app_name = AppName

\* C12: a non-success response that is not a permission signal makes the
\* call raise, in every module: the body is never returned as a normal
\* result, the endpoint is called once and the broker is not called.
C12_NonSuccessRaisesOnce ==
    (requests # <<>> /\ ~IsSuccess(first.status)
     /\ ~SignalsRequired(first) /\ ~SignalsDenied(first)) =>
        /\ pc = "done"
        /\ outcome.kind \notin {"none", "return"}
        /\ Len(requests) = 1
        /\ ~BrokerCalled

C14_InsertReturnsData ==
    (/\ pc = "done" /\ op \in {ActivitiesModule_insert, ActivitiesModule_update}
     /\ outcome.kind = "return" /\ outcome.data.json
     /\ outcome.data.body.success = "True" /\ outcome.data.body.data # <<>>) =>
        ActivitiesModule_insert_result(outcome.data.body, depth)
            = outcome.data.body.data[1]

\* C15: a typed response with success = false carries a non-empty error
\* string, whatever body the upstream answered.
C15_FailureCarriesError ==
    (pc = "done" /\ op = LLMModule_chat /\ outcome.kind = "return") =>
        LET response == LLMModule_chat_response(outcome.data)
        IN  ~Truthy(response.success) => Truthy(response.error)

----------------------------------------------------------------------------
\* Properties of the stream decoders.

Decoding == dec.state # "idle"

\* What the decoder produces when the text read so far arrives in one read.
OneRead == StreamRead(OpenDecoder(dec.decoder), sent)

\* C16: decoding does not depend on where the reads cut the stream: after
\* any reads, chat_stream and speak_stream have yielded the chunks and raised
\* the error that one read of the same text gives.
C16_SplitIndependent ==
    Decoding => (dec.chunks = OneRead.chunks /\ dec.error = OneRead.error)

\* A read has ended inside the "data: " prefix of a line, after a chunk.
C16_Witness ==
    /\ dec.state = "open" /\ dec.chunks # <<>>
    /\ dec.buffer = <<"data", ":">>

\* The lines of the stream that a newline has ended so far.
LinesRead == SplitLines(sent).lines

\* A line "data: ..." as chat_stream reads it and a line "data:..." as
\* speak_stream reads it, with their payloads.
IsChatData(line) == StartsWith(Strip(line), <<"data", ":", SP>>)
ChatPayload(line) == After(Strip(line), <<"data", ":", SP>>)
IsSpeakData(line) == StartsWith(Strip(line), <<"data", ":">>)
SpeakPayload(line) == Strip(After(Strip(line), <<"data", ":">>))
IsData(line) == IsSpeakData(line)

IsEvent(line) == StartsWith(Strip(line), <<"event", ":">>)
EventType(line) == Strip(After(Strip(line), <<"event", ":">>))
IsErrorEvent(line) == IsEvent(line) /\ EventType(line) = <<"error">>

IsDone(line) == IsChatData(line) /\ ChatPayload(line) = <<"[DONE]">>

\* The lines up to and including the first "data: [DONE]".
RECURSIVE UntilDone(_)
UntilDone(lines) ==
    IF lines = <<>> THEN <<>>
    ELSE IF IsDone(Head(lines)) THEN <<Head(lines)>>
    ELSE <<Head(lines)>> \o UntilDone(Tail(lines))

\* C17: in chat_stream a payload "[DONE]" emits no chunk and ends the
\* sequence without error: what has been yielded and raised is what the
\* lines up to the first "[DONE]" give, whatever frames follow it.
C17_DoneEndsSequence ==
    (Decoding /\ dec.decoder = "chat_stream") =>
        LET cut == StreamRead(OpenDecoder("chat_stream"), Join(UntilDone(LinesRead)))
        IN  dec.chunks = cut.chunks /\ dec.error = cut.error

\* C18: an "event: error" line followed by its "data:" line raises
\* LLMProviderError, yields no chunk for the frame and aborts the sequence,
\* in chat_stream and in speak_stream, whatever the payload.
C18_ErrorFrameRaises ==
    (/\ Decoding /\ Len(LinesRead) >= 2
     /\ IsErrorEvent(LinesRead[1]) /\ IsData(LinesRead[2])) =>
        /\ dec.state = "raised"
        /\ dec.error.kind = "LLMProviderError"
        /\ dec.chunks = <<>>

\* The event type in force at line j of speak_stream: that of the nearest
\* event line before j with no data line in between.
SpeakEventAt(lines, j, type) ==
    \E i \in 1..(j - 1) :
        /\ IsEvent(lines[i]) /\ EventType(lines[i]) = type
        /\ \A k \in (i + 1)..(j - 1) : ~IsEvent(lines[k]) /\ ~IsSpeakData(lines[k])

\* The data frames that are valid for a decoder, and the chunk of each.
ValidFrame(name, lines, j) ==
    IF name = "chat_stream"
    THEN IsChatData(lines[j]) /\ IsJsonObject(ChatPayload(lines[j]))
    ELSE /\ IsSpeakData(lines[j]) /\ IsJsonObject(SpeakPayload(lines[j]))
         /\ json_loads(SpeakPayload(lines[j])).audio \in DOMAIN Base64
         /\ json_loads(SpeakPayload(lines[j])).index # Absent
         /\ json_loads(SpeakPayload(lines[j])).total # Absent
         /\ SpeakEventAt(lines, j, <<"chunk">>)

ChunkOf(name, line) ==
    IF name = "chat_stream" THEN StreamChunk(json_loads(ChatPayload(line)))
    ELSE LET parsed == json_loads(SpeakPayload(line))
         IN  [index |-> parsed.index, total |-> parsed.total,
              audio |-> Base64[parsed.audio],
              mimeType |-> Get(parsed.mimeType, "audio/wav")]

RECURSIVE ValidChunks(_, _, _)
ValidChunks(name, lines, j) ==
    IF j > Len(lines) THEN <<>>
    ELSE (IF ValidFrame(name, lines, j) THEN <<ChunkOf(name, lines[j])>> ELSE <<>>)
         \o ValidChunks(name, lines, j + 1)

\* A data line whose payload is not JSON (the payload "[DONE]" of chat_stream
\* apart).
InvalidFrame(line) ==
    /\ IsChatData(line) /\ ~IsDone(line) /\ ~IsJson(ChatPayload(line))

\* A data line whose payload is JSON but not an object.
ScalarFrame(line) == IsSpeakData(line) /\ IsJson(SpeakPayload(line))
                         /\ ~IsJsonObject(SpeakPayload(line))

\* C19: a data frame whose payload is not valid JSON is dropped without
\* aborting the stream: the stream is aborted only where it holds an error
\* event or a payload that is JSON, and while it is not aborted the chunks
\* yielded are those of the valid data frames read so far, all of them and
\* in their order.
C19_InvalidJsonDropped ==
    Decoding =>
        /\ dec.state = "raised" =>
              \E i \in 1..Len(LinesRead) :
                  IsErrorEvent(LinesRead[i]) \/ ScalarFrame(LinesRead[i])
        /\ dec.state # "raised" => dec.chunks = ValidChunks(dec.decoder, LinesRead, 1)

\* An invalid frame has been read between two valid frames, and both were
\* yielded.
C19_Witness ==
    /\ dec.state = "closed" /\ Len(LinesRead) >= 3 /\ Len(dec.chunks) = 2
    /\ \E i \in 2..(Len(LinesRead) - 1) :
        /\ InvalidFrame(LinesRead[i])
        /\ ValidFrame(dec.decoder, LinesRead, 1)
        /\ ValidFrame(dec.decoder, LinesRead, Len(LinesRead))

----------------------------------------------------------------------------
\* C20: a streaming call whose first response is not a 200 and signals
\* PERMISSION_REQUIRED consults the broker; on a grant the stream is
\* requested again with the same arguments and the caller receives the chunks
\* of the restarted stream; on a refusal PermissionDeniedError is raised and
\* no chunk is yielded.
C20_StreamRestartsOnGrant ==
    (/\ op \in StreamOperations /\ requests # <<>>
     /\ first.status # 200 /\ SignalsRequired(first)) =>
        /\ pc = "permission" \/ BrokerCalled
        /\ FirstRefused =>
              /\ pc = "done" /\ outcome.kind = "PermissionDeniedError"
              /\ dec.chunks = <<>>
        /\ (FirstGranted /\ Len(requests) >= 2) => requests[2] = requests[1]
        /\ (FirstGranted /\ pc = "done" /\ Decoding) =>
              (dec.chunks = OneRead.chunks /\ dec.error = OneRead.error)

----------------------------------------------------------------------------
\* C25: a provider failure (code LLM_ERROR, with the server's error message)
\* on an llm, vectors or tts operation is raised as LLMProviderError with the server's error message
\* verbatim, and is not retried.
C25_ProviderErrorRaised ==
    (/\ op.module \in {"llm", "vectors", "tts"} /\ requests # <<>>
     /\ first.json /\ first.body.code = LLM_ERROR /\ Truthy(first.body.error)) =>
        /\ pc = "done"
        /\ outcome.kind = "LLMProviderError"
        /\ outcome.message = first.body.error
        /\ Len(requests) = 1
        /\ ~BrokerCalled

\* C26: a response whose body is not JSON makes the wrapped call fail with
\* the SDK's request-failed error, not with the raw JSON decoding error and
\* not with a normal return, and the broker is not called.
C26_NonJsonIsRequestFailed ==
    (Wrapped /\ op.module # "tts" /\ requests # <<>> /\ ~first.json) =>
        /\ pc = "done"
        /\ outcome.kind \in {"Exception", "HTTPStatusError"}
        /\ ~BrokerCalled

\* The calls the claim names: trigger_agent with auto_run and one of the
\* three names missing, delete with delete_all false.
InconsistentArguments ==
    \/ /\ op.module = "webhook" /\ op.name = "trigger_agent"
       /\ op.args.auto_run = "True"
       /\ \E name \in {op.args.agent_name, op.args.workspace_slug, op.args.thread_slug} :
              name \in {Absent, ""}
    \/ /\ op.module = "vectors" /\ op.name = "delete"
       /\ op.args.delete_all = "False"

\* C24: inconsistent arguments raise ValueError before any network call: no
\* request has been sent to the upstream or to the broker.
C24_ValidationBeforeNetwork ==
    (pc # "idle" /\ InconsistentArguments) =>
        /\ pc = "done"
        /\ outcome.kind = "ValueError"
        /\ requests = <<>>
        /\ brokerLog = <<>>

C24_Witness ==
    /\ pc = "done" /\ op = VectorStore_delete("False")
    /\ outcome.kind = "ValueError" /\ requests = <<>>

----------------------------------------------------------------------------
\* C27: the event type of an "event:" line lasts only until the next blank
\* line or data line: a data line that follows "event: error" after a blank
\* line is decoded as ordinary data and does not raise.
C27_EventTypeEndsAtBlankLine ==
    (/\ Decoding /\ Len(LinesRead) >= 3
     /\ IsErrorEvent(LinesRead[1]) /\ Strip(LinesRead[2]) = <<>>
     /\ ValidFrame("chat_stream", LinesRead, 3)) =>
        /\ dec.state # "raised"
        /\ dec.decoder = "chat_stream" =>
              dec.chunks = <<ChunkOf("chat_stream", LinesRead[3])>>

\* The "data: " lines whose payload is valid JSON.
JsonFrames(lines) ==
    {j \in 1..Len(lines) : IsChatData(lines[j]) /\ IsJson(ChatPayload(lines[j]))}

\* C28: for a stream without error frames chat_stream yields, in order and
\* one chunk per frame, the "data: " payloads that are valid JSON and are
\* not "[DONE]", and nothing else.
C28_ReferenceDecoder ==
    (/\ Decoding /\ dec.decoder = "chat_stream"
     /\ \A i \in 1..Len(LinesRead) : ~IsErrorEvent(LinesRead[i])) =>
        /\ dec.error = NoError
        /\ Len(dec.chunks) = Cardinality(JsonFrames(LinesRead))
        /\ (\A j \in JsonFrames(LinesRead) : IsJsonObject(ChatPayload(LinesRead[j]))) =>
              dec.chunks = ValidChunks("chat_stream", LinesRead, 1)

\* The port can be bound on every address the host has: on 127.0.0.1, on
\* 0.0.0.0 and, where the host has IPv6, on ::1.
Available(p) ==
    /\ bind(port.world, "127.0.0.1", p)
    /\ bind(port.world, "0.0.0.0", p)
    /\ port.world.ipv6 => bind(port.world, "::1", p)

FindRange == port.start_port..(port.start_port + port.max_attempts - 1)

\* C29: find_available_port(start, max_attempts) returns the smallest
\* available port of start .. start + max_attempts - 1, and raises
\* RuntimeError exactly when no port of that range is available.
C29_SmallestAvailablePort ==
    (port.pc = "done" /\ port.call = "find_available_port" /\ port.start_port # NoPort) =>
        /\ port.result.kind \in {"return", "RuntimeError"}
        /\ port.result.kind = "RuntimeError" <=> \A p \in FindRange : ~Available(p)
        /\ port.result.kind = "return" =>
            /\ port.result.port \in FindRange
            /\ Available(port.result.port)
            /\ \A p \in FindRange : p < port.result.port => ~Available(p)

\* C30: get_port returns the suggested port, RTX_PORT or else the default
\* port, when it is available, and the next available port above it when
\* it is not; the port it returns is available and every port from the
\* suggested one up to it is not.
C30_SuggestedPortOrNextAbove ==
    (port.pc = "done" /\ port.call = "get_port" /\ port.start_port # NoPort) =>
        /\ Available(port.start_port) =>
            (port.result.kind = "return" /\ port.result.port = port.start_port)
        /\ port.result.kind = "return" =>
            /\ port.result.port >= port.start_port
            /\ Available(port.result.port)
            /\ \A p \in port.start_port..(port.result.port - 1) : ~Available(p)


\* The same call run alone: the wrapper handles the responses one after the
\* other, asking the broker between two of them, nothing else running.
RECURSIVE RunAlone(_, _, _, _, _)
RunAlone(o, responses, answers, nrequests, nbroker) ==
    IF responses = <<>>
    THEN [outcome |-> NoOutcome, requests |-> nrequests, broker |-> nbroker]
    ELSE LET step == handle_response(o, Head(responses))
         IN  IF step.to = "done"
             THEN [outcome |-> step.outcome, requests |-> nrequests + 1, broker |-> nbroker]
             ELSE IF answers = <<>>
             THEN [outcome |-> NoOutcome, requests |-> nrequests + 1, broker |-> nbroker]
             ELSE IF Truthy(request_permission(Head(answers)))
             THEN RunAlone(o, Tail(responses), Tail(answers), nrequests + 1, nbroker + 1)
             ELSE [outcome |-> RaiseDenied(o.module, step.permission, step.message),
                   requests |-> nrequests + 1, broker |-> nbroker + 1]

Alone(i) == RunAlone(calls[i].op, calls[i].responses, calls[i].answers, 0, 0)

OpenConnections == {i \in 1..Len(life.stack) : life.stack[i].conn # "closed"}

\* C21: a streaming call holds at most one open upstream connection at any
\* point, also while the stream restarted after a grant is consumed.
C21_OneOpenConnection == Cardinality(OpenConnections) <= 1

\* C22: once the consumer has cancelled the sequence, at whatever point,
\* every connection the call opened is eventually closed, and from then on
\* none is open.
C22_CancelClosesConnections == life.cancelled ~> [](OpenConnections = {})

\* The consumer closed the generator while it was taking chunks from a
\* stream restarted after a grant, and both connections are closed.
C22_Witness ==
    /\ life.cancelled
    /\ life.pc = "ended"
    /\ life.chunks >= 1
    /\ life.opened >= 2
    /\ OpenConnections = {}


\* C31: is_port_available(port) is true exactly when the port can be bound
\* on 127.0.0.1, on 0.0.0.0 and on ::1, the check on ::1 being skipped on a
\* host without IPv6: a port that binds on both IPv4 addresses is then
\* reported available.
C31_AvailableIffBindable ==
    (port.pc = "done" /\ port.call = "is_port_available") =>
        (port.result.kind = "True" <=> Available(port.start_port))


\* What the decoder produces from the lines a newline has ended so far.
TerminatedOnly == StreamRead(OpenDecoder(dec.decoder), Join(LinesRead))

\* C40: a last line that no newline ends is discarded: up to and after the
\* end of the stream chat_stream and speak_stream have yielded and raised
\* what the terminated lines alone give, also when the last line is a
\* complete data line or the payload of an error frame.
C40_UnterminatedLineDiscarded ==
    Decoding => (dec.chunks = TerminatedOnly.chunks /\ dec.error = TerminatedOnly.error)

\* The stream has ended on a complete data line with no newline, right
\* after an "event: error" line, and the generator has returned.
C40_Witness ==
    /\ dec.state = "closed" /\ wire = <<>>
    /\ dec.buffer = <<"data", ":", SP, "{", "1}">>
    /\ LinesRead # <<>> /\ IsErrorEvent(LinesRead[Len(LinesRead)])
    /\ dec.error = NoError


\* The chunk frames of speak_stream: the data lines read while the event
\* type set by an "event: chunk" line is in force.
ChunkFrames(lines) ==
    {j \in 1..Len(lines) : IsSpeakData(lines[j]) /\ SpeakEventAt(lines, j, <<"chunk">>)}

TaskEvent ==
    CASE op.name = "start" -> "{app_name,app_id,event:task-start,payload}"
      [] op.name = "complete" -> "{app_name,app_id,event:task-complete,payload}"
      [] OTHER -> "{app_name,app_id,event:task-fail,payload}"

\* C37: start, complete and fail send exactly one POST to /webhooks/realtimex
\* with their event and a payload that holds task_uuid and holds result,
\* error and machine_id only when they were supplied; a response that is not
\* ok raises; the request is never sent again and the broker never called.
C37_TaskEventSentOnce ==
    op.module = "task" =>
        /\ Len(requests) <= 1
        /\ pc = "done" => Len(requests) = 1
        /\ brokerLog = <<>>
        /\ \A k \in 1..Len(requests) :
            /\ requests[k].method = "POST"
            /\ requests[k].url = "/webhooks/realtimex"
            /\ requests[k].json = TaskEvent
            /\ "task_uuid" \in requests[k].payload
            /\ "result" \in requests[k].payload <=> op.args.result # Absent
            /\ "error" \in requests[k].payload <=> op.args.error # Absent
            /\ "machine_id" \in requests[k].payload <=> op.args.machine_id # Absent
        /\ (pc = "done" /\ first.status >= 400) => outcome.kind \notin {"none", "return"}
        /\ (pc = "done" /\ first.status < 400 /\ first.json) => outcome.kind = "return"

\* complete(task_uuid, result) without a machine id was answered 403 with
\* PERMISSION_REQUIRED and has raised.
C37_Witness ==
    /\ op.module = "task" /\ op.name = "complete" /\ pc = "done"
    /\ op.args.result # Absent /\ op.args.machine_id = Absent
    /\ first.status = 403 /\ first.json /\ first.body.error = PERMISSION_REQUIRED
    /\ outcome.kind = "Exception"


\* C38: ActivitiesModule.get returns None when the upstream answers 404,
\* with no broker call and no replay; on any other status it does what the
\* permission-retry wrapper does, and so ends as the wrapper ends: with a
\* return, PermissionDeniedError or the error of the status or the body.
C38_GetReturnsNoneOn404 ==
    op = ActivitiesModule_get =>
        /\ first.status = 404 =>
            /\ pc = "done" /\ outcome = ReturnNone
            /\ Len(requests) = 1 /\ brokerLog = <<>>
        /\ (first.status \notin {0, 404} /\ brokerLog = <<>> /\ pc = "done") =>
            outcome = ActivitiesModule_handle_response(first).outcome
        /\ outcome.kind \in {"none", "return", "PermissionDeniedError",
                             "HTTPStatusError", "JSONDecodeError"}


\* The broker calls of the call after which the wrapper went on to a replay.
Grants == {k \in 1..Len(brokerLog) : brokerLog[k].granted}

\* C35: the order of the recovery handshake. The broker is called only
\* after a response that signals PERMISSION_REQUIRED, once per such
\* response; a request after the first is sent only after the broker call
\* that followed the request before it returned a grant, a JSON body whose
\* granted is true; a broker call that did not grant is the last step of
\* the call.
C35_HandshakeOrder ==
    Wrapped =>
        /\ BrokerCalled => SignalsRequired(first)
        /\ Len(brokerLog) <= Len(requests)
        /\ Len(requests) <= 1 + Cardinality(Grants)
        /\ (requests # <<>> /\ pc # "request") => Len(requests) = 1 + Cardinality(Grants)
        /\ \A k \in 1..Len(brokerLog) : ~brokerLog[k].granted => k = Len(brokerLog)
        /\ pc = "permission" => Len(brokerLog) = Len(requests) - 1
        /\ (BrokerCalled /\ brokerLog[Len(brokerLog)].granted) =>
              (lastAnswer.kind = "json" /\ lastAnswer.granted = "True")
        /\ (BrokerCalled /\ ~brokerLog[Len(brokerLog)].granted) => pc = "done"


\* How a call ends, as its caller sees it.
OutcomeClass(o) ==
    CASE o.kind = "return" -> "return"
      [] o.kind = "PermissionDeniedError" -> "PermissionDeniedError"
      [] o.kind = "none" -> "none"
      [] OTHER -> "error"

\* The end and the counts of a run, without what was returned or raised.
Behaviour(run) ==
    [class |-> OutcomeClass(run.outcome), requests |-> run.requests, broker |-> run.broker]

\* C36: replayed against the responses and broker answers any call has
\* received, the wrappers of ApiModule, ActivitiesModule and LLMModule that
\* all reach an end reach the same class of outcome with the same number of
\* upstream requests and of broker calls.
C36_WrappersEquivalent ==
    \A i \in DOMAIN calls :
        LET api == RunAlone(ApiModule_get_agents, calls[i].responses, calls[i].answers, 0, 0)
            activities == RunAlone(ActivitiesModule_insert, calls[i].responses,
                                   calls[i].answers, 0, 0)
            llm == RunAlone(LLMModule_chat, calls[i].responses, calls[i].answers, 0, 0)
        IN  (api.outcome # NoOutcome /\ activities.outcome # NoOutcome /\ llm.outcome # NoOutcome)
                => (Behaviour(api) = Behaviour(activities) /\ Behaviour(api) = Behaviour(llm))


\* The answer was a success response. register() sets _registered on it
\* when its body is an object.
RegisterSucceeded(ans) == ans.kind = "response" /\ IsSuccess(ans.status)

\* C39: _registered is false after construction, is true only if a POST
\* /sdk/register sent by register() was answered with a success, and once
\* true stays true; without declared permissions register() sends nothing
\* and _registered stays false; an answer that is a failure, or a
\* registration that raises, leaves _registered as it was, and nothing is
\* raised to the caller of register().
C39_RegistrationState ==
    /\ [](/\ (sdk.pc = "ready" /\ sdk.calls = 0) => ~sdk.registered
          /\ sdk.registered =>
                \E k \in 1..Len(sdk.answers) :
                    /\ RegisterSucceeded(sdk.answers[k])
                    /\ sdk.requests[k].url = "/sdk/register"
          /\ sdk.permissions = <<>> => (sdk.requests = <<>> /\ ~sdk.registered)
          /\ sdk.raised = Absent)
    /\ [][sdk.registered => sdk'.registered]_vars
    /\ [][(Len(sdk'.answers) > Len(sdk.answers)
            /\ (~RegisterSucceeded(sdk'.answers[Len(sdk'.answers)])
                \/ RealtimeXSDK_register_raised(sdk'.answers[Len(sdk'.answers)]) # Absent))
              => sdk'.registered = sdk.registered]_vars

\* A registration failed while reading the body of its answer, a later one
\* succeeded.
C39_Witness ==
    /\ sdk.registered
    /\ Len(sdk.answers) = 2
    /\ RealtimeXSDK_register_raised(sdk.answers[1]) = "JSONDecodeError"
    /\ sdk.pc = "ready"


\* The upsert requests of the call.
Upserts ==
    {k \in 1..Len(embed.requests) : embed.requests[k].endpoint = "/sdk/llm/vectors/upsert"}

\* embed() has returned an EmbedResponse with success and embeddings.
Embedded == ~EmbedFailed(embed.embed_result)

\* C32: embed_and_store sends an upsert only after the embed request
\* succeeded with embeddings; a call whose embedding failed has sent no
\* upsert and returns success = False with a non-empty error; a call whose
\* embedding succeeded upserts one vector per text, with distinct ids,
\* vector i being embedding i.
C32_EmbedThenStore ==
    embed.name = "embed_and_store" =>
        /\ Upserts # {} => Embedded
        /\ (embed.pc = "done" /\ ~Embedded) =>
              /\ Upserts = {}
              /\ embed.outcome.kind = "return"
              /\ embed.outcome.success = "False"
              /\ Truthy(embed.outcome.error)
        /\ (embed.pc = "done" /\ Embedded) =>
              /\ Upserts # {}
              /\ \A k \in Upserts :
                    LET vectors == embed.requests[k].vectors
                    IN  /\ Len(vectors) = Len(embed.texts)
                        /\ \A a, b \in DOMAIN vectors :
                              vectors[a].id = vectors[b].id => a = b
                        /\ \A a \in DOMAIN vectors :
                              vectors[a].vector = embed.embed_result.embeddings[a]

\* The query requests of the call.
Queries ==
    {k \in 1..Len(embed.requests) : embed.requests[k].endpoint = "/sdk/llm/vectors/query"}

\* C33: a search whose embed request succeeded with an embedding sends the
\* vector query and ends with its results or with LLMProviderError; a
\* search ends with LLMProviderError only if the embedding failed or a
\* query was answered.
C33_SearchReturnsResults ==
    (embed.name = "search" /\ embed.pc = "done") =>
        /\ Embedded =>
              /\ Queries # {}
              /\ embed.outcome.kind \in {"return", "LLMProviderError"}
        /\ embed.outcome.kind = "LLMProviderError" => (~Embedded \/ Queries # {})


====
